---- MODULE Spec2Model ----
(***************************************************************************)
(* Verification model of the ObShare upload core: the block reconciler,    *)
(* the relationship validator, the smart-update orchestrator, the callout  *)
(* transcoder, the delete queue, the permission-request retry loop and the *)
(* double-link resolver.  Every component has its own variables, its own   *)
(* initial predicate and its own specification; the variables of the       *)
(* components a specification does not exercise stay at their idle values. *)
(* Strings are sequences of one-character strings.                         *)
(***************************************************************************)
EXTENDS Integers, Sequences, FiniteSets, TLC

VARIABLES
    \* ---- block reconciler (SmartUpdateManager.reorderBlocksByImprovedMatching)
    mdLines,            \* the Markdown source, one string per line
    blocks,             \* the block list returned by the conversion API
    markdownStructure,  \* parseMarkdownStructure(mdLines)
    structIndex,        \* loop counter of the outer for loop
    usedBlockIndices,   \* Set<number>
    reorderedBlocks,    \* the output array
    matchLog,           \* one entry per handled structure element
    recPc,              \* "off" | "idle" | "match" | "done"
    \* ---- relationship validator (validateAndFixParentChildRelations)
    valInput,           \* the argument blocks
    fixedBlocks,        \* the copies the function works on and returns
    valIndex,           \* position of the second forEach
    valPc,              \* "off" | "idle" | "fix" | "done"
    \* ---- smart update (SmartUpdateManager.performSmartUpdate)
    suHistoryHasDoc,    \* findExistingDocument finds a record of the title
    suRemoteChildren,   \* children of the root block of the remote document
    suToCreate,         \* non-table blocks the conversion produced
    suCreated,          \* currentIndex of createNonTableBlocksInBatches
    suCalls,            \* the remote calls issued so far, in order
    suResult,           \* the SmartUpdateResult, once returned
    suPc,               \* position in performSmartUpdate
    \* ---- callout conversion (CalloutConverter, processCalloutConversion)
    coPath,             \* "converter" (CalloutConverter) | "smart" (SmartUpdateManager)
    coListsPage,        \* the block listing of the API starts with the page block
    coDoc,              \* the children of the root block of the remote document
    coCallouts,         \* the types of the selected callouts, in source order
    coMatches,          \* the work list: [callout, block] pairs
    coItem,             \* position in the work list
    coCalls,            \* the delete and insert calls issued so far
    coConverted,        \* convertedCount
    coPc,               \* "off" | "idle" | "delete" | "insert" | "done"
    \* ---- delete queue (FeishuApiClient.queueDeleteRequest, processDeleteQueue)
    deleteRequestQueue,       \* the queued requests, oldest first
    isProcessingDeleteQueue,
    lastDeleteRequestTime,
    now,                \* Date.now()
    dqEnqueued,         \* number of calls of queueDeleteRequest so far
    dqConsumers,        \* the activations of processDeleteQueue, by starting call
    dqInFlight,         \* requests dispatched and not yet completed
    dqDispatched,       \* [req, at] for every dispatch, in order
    dqSettled,          \* what became of the promise of every request
    \* ---- remote calls and the retry loop (executePermissionRequest,
    \*      createDocumentBlocks)
    rtKind,             \* "permission" | "createBlocks"
    rtNow,              \* ms since the call began
    retryCount,
    rtAttempts,         \* [response, sent, answered] for every request sent
    rtError,            \* the response the call threw, "none" if it did not
    rtPc,               \* "off" | "send" | "await" | "backoff" | "returned" | "thrown"
    \* ---- double-link resolver (LinkProcessor)
    lpVault,            \* per call: the titles the wiki-links of its note name
    uploadedDocuments,  \* titles of the cache of upload results
    processingDocuments,
    lpLink,             \* per call of processWikiLinks: position in wikiLinks
    lpResults,          \* per call: the keys of the results map
    lpUploads,          \* per title: uploads of the note that succeeded
    lpPc,               \* per call: "off" | "idle" | "loop" | "uploading" | "done"
    \* ---- match score of one block against one line (calculateContentMatchScore)
    scBlock,            \* the block
    scLine,             \* the Markdown line
    scScore,            \* the score of the block against the element of the line
    scPc,               \* "off" | "idle" | "done"
    \* ---- creations and deletions of one smart update, call by call
    plRemoteChildren,   \* children of the root block before the update
    plListing,          \* the blocks getDocumentBlocksDetailed answers
    plNonTable,         \* number of non-table blocks to create
    plTables,           \* number of table blocks to create
    plTableRows,        \* whether the tables have rows
    plI,                \* loop variable of the batch loop, then of the table loop
    plCurrentIndex,     \* currentIndex of the running loop
    plIssued,           \* create and delete calls issued: [op, index, from, to]
    plInFlight,         \* positions in plIssued of the calls not answered yet
    plFailed,           \* positions in plIssued of the calls answered with an error
    plDoc,              \* children of the root block the update has created
    plPc,               \* "off" or the await the update is suspended at
    \* ---- insertion planner (processBlocksForInsertion)
    pnInput,            \* the blocks given to processBlocksForInsertion
    pnOutput,           \* the blocks it returns
    pnPc,               \* "off" | "idle" | "done"
    \* ---- choice between smart update and plain creation (shouldUseSmartUpdate)
    sdArgs,             \* the arguments of the call
    sdResult,           \* whether it has returned, and what
    \* ---- replacement of the double links of a note (LinkProcessor.processWikiLinks)
    wlContent,          \* the content of the note
    wikiLinks,          \* the links extractWikiLinks found: [originalText, title, position, feishuUrl]
    wlI,                \* position of the loop of uploadReferencedDocuments
    wlUploaded,         \* titles of the cache of upload results
    processedContent,   \* the content processWikiLinks returns
    wlPc,               \* "off" | "idle" | "upload" | "done"
    \* ---- Markdown preprocessor (convertObsidianImageSyntax, preprocessMarkdownForBlockSeparation)
    ppMarkdown,         \* the Markdown text
    ppOut,              \* what the preprocessor returned: for the text, then for its own output
    \* ---- the wait for an import task (FeishuApiClient.waitForImportTask)
    imMaxRetries,       \* the parameter maxRetries
    imRetryCount,       \* retryCount
    imQueries,          \* calls of queryImportTask so far
    imLast,             \* what the last call of queryImportTask came to
    imPc                \* "off" | "loop" | "query" | "wait" | "returned" | "thrown"

recVars == <<mdLines, blocks, markdownStructure, structIndex, usedBlockIndices,
             reorderedBlocks, matchLog, recPc>>

valVars == <<valInput, fixedBlocks, valIndex, valPc>>

suVars == <<suHistoryHasDoc, suRemoteChildren, suToCreate, suCreated, suCalls,
            suResult, suPc>>

coVars == <<coPath, coListsPage, coDoc, coCallouts, coMatches, coItem, coCalls,
            coConverted, coPc>>

dqVars == <<deleteRequestQueue, isProcessingDeleteQueue, lastDeleteRequestTime,
            now, dqEnqueued, dqConsumers, dqInFlight, dqDispatched, dqSettled>>

rtVars == <<rtKind, rtNow, retryCount, rtAttempts, rtError, rtPc>>

lpVars == <<lpVault, uploadedDocuments, processingDocuments, lpLink, lpResults,
            lpUploads, lpPc>>

scVars == <<scBlock, scLine, scScore, scPc>>

plVars == <<plRemoteChildren, plListing, plNonTable, plTables, plTableRows, plI, plCurrentIndex,
            plIssued, plInFlight, plFailed, plDoc, plPc>>

pnVars == <<pnInput, pnOutput, pnPc>>

sdVars == <<sdArgs, sdResult>>

wlVars == <<wlContent, wikiLinks, wlI, wlUploaded, processedContent, wlPc>>

ppVars == <<ppMarkdown, ppOut>>

imVars == <<imMaxRetries, imRetryCount, imQueries, imLast, imPc>>

vars == <<recVars, valVars, suVars, coVars, dqVars, rtVars, lpVars, scVars, plVars, pnVars, sdVars, wlVars, ppVars, imVars>>

-----------------------------------------------------------------------------
(* Bounds of the model *)

MaxStructs == 2
MaxBlocks == 2
MaxValBlocks == 2       \* blocks handed to the relationship validator
MaxChildren == 2        \* entries of a children array
MaxRemoteChildren == 2  \* children of the remote root block before an update
MaxNested == 1          \* blocks below the first child of the remote root block
MaxDocBlocks == 2       \* blocks of the document whose callouts are converted
MaxCallouts == 2        \* callouts selected for conversion
MaxDeletes == 3         \* calls of queueDeleteRequest
StartTime == 1000       \* Date.now() when the first delete is queued
MaxElapsed == 1050      \* how far the clock runs, in ms
TickMs == 175           \* granularity of the clock
RequestLatency == 1000  \* ms a slow remote call takes to answer
TimerLateness == 500    \* ms a timer may fire after it is due
MaxTitles == 2          \* notes of the vault
MaxLinks == 2           \* wiki-links of a note

-----------------------------------------------------------------------------
(* Characters and strings *)

\* The one element of a singleton set.  A value that is used several times is
\* bound once as  The({F(x) : x \in {v}}).
The(S) == CHOOSE r \in S : TRUE

Min(a, b) == IF a < b THEN a ELSE b
Max(a, b) == IF a > b THEN a ELSE b

Digits == {"0", "1", "2", "3", "4", "5", "6", "7", "8", "9"}
LowerLetters == {"a", "b", "c", "d", "e", "h", "n", "o", "t", "x", "y"}
UpperLetters == {"A", "B", "D", "E", "H", "N", "O", "T"}
CJK == {"tu", "pian", "dai", "ma", "kuai"}   \* the ideographs of the placeholders
\* "bq" stands for the backquote character and "bullet" for the bullet sign

\* String.prototype.toLowerCase, one character
LowerOf(c) ==
    CASE c = "A" -> "a"
      [] c = "B" -> "b"
      [] c = "D" -> "d"
      [] c = "E" -> "e"
      [] c = "H" -> "h"
      [] c = "N" -> "n"
      [] c = "O" -> "o"
      [] c = "T" -> "t"
      [] OTHER -> c

\* String.prototype.toUpperCase, one character
UpperOf(c) ==
    CASE c = "a" -> "A"
      [] c = "b" -> "B"
      [] c = "d" -> "D"
      [] c = "e" -> "E"
      [] c = "h" -> "H"
      [] c = "n" -> "N"
      [] c = "o" -> "O"
      [] c = "t" -> "T"
      [] OTHER -> c

IsSpace(c) == c = " "
IsDigit(c) == c \in Digits
\* \w of a JavaScript regular expression
IsWordChar(c) == c \in LowerLetters \cup UpperLetters \cup Digits \cup {"_"}

ToLowerCase(s) == [i \in 1..Len(s) |-> LowerOf(s[i])]
ToUpperCase(s) == [i \in 1..Len(s) |-> UpperOf(s[i])]

Substring(s, from, to) ==      \* s.substring(from, to), 0-based, end exclusive
    SubSeq(s, from + 1, Min(to, Len(s)))

RECURSIVE TrimStart(_)
TrimStart(s) == IF s # <<>> /\ IsSpace(s[1]) THEN TrimStart(Tail(s)) ELSE s

RECURSIVE TrimEnd(_)
TrimEnd(s) ==
    IF s # <<>> /\ IsSpace(s[Len(s)]) THEN TrimEnd(SubSeq(s, 1, Len(s) - 1)) ELSE s

Trim(s) == TrimEnd(TrimStart(s))

StartsWith(s, p) == Len(s) >= Len(p) /\ SubSeq(s, 1, Len(p)) = p

\* s.includes(p)
Includes(s, p) ==
    \E i \in 0..(Len(s) - Len(p)) : SubSeq(s, i + 1, i + Len(p)) = p

\* number of leading characters of s that satisfy the class test
RECURSIVE LeadingDigits(_)
LeadingDigits(s) == IF s # <<>> /\ IsDigit(s[1]) THEN 1 + LeadingDigits(Tail(s)) ELSE 0

DropFirst(s, n) == SubSeq(s, n + 1, Len(s))


\* decimal digits of a block_type number, as a template literal prints it
DigitOf(n) == CASE n = 0 -> "0" [] n = 1 -> "1" [] n = 2 -> "2" [] n = 3 -> "3"
                [] n = 4 -> "4" [] n = 5 -> "5" [] n = 6 -> "6" [] n = 7 -> "7"
                [] n = 8 -> "8" [] OTHER -> "9"
NumStr(n) == IF n < 10 THEN <<DigitOf(n)>> ELSE <<DigitOf(n \div 10), DigitOf(n % 10)>>

-----------------------------------------------------------------------------
(* Structure Parser: parseMarkdownStructure *)

StructContentMax == 50
CodePlaceholder == <<"[", "dai", "ma", "kuai", "]">>
ImagePlaceholder == <<"[", "tu", "pian", "]">>

\* "<digits>." followed by a white-space character: the length of the matched
\* prefix, 0 when the line does not match
OrderedPrefixLen(s) ==
    LET d == LeadingDigits(s)
    IN  IF d > 0 /\ Len(s) >= d + 2 /\ s[d + 1] = "." /\ IsSpace(s[d + 2])
        THEN d + 2 ELSE 0

\* the type and content the parser gives one non-blank trimmed line
ClassifyLine(t) ==
    IF StartsWith(t, <<"#", " ">>) THEN [type |-> "heading1", content |-> Trim(DropFirst(t, 2))]
    ELSE IF StartsWith(t, <<"#", "#", " ">>) THEN [type |-> "heading2", content |-> Trim(DropFirst(t, 3))]
    ELSE IF StartsWith(t, <<"#", "#", "#", " ">>) THEN [type |-> "heading3", content |-> Trim(DropFirst(t, 4))]
    ELSE IF StartsWith(t, <<"-", " ">>) \/ StartsWith(t, <<"*", " ">>)
         THEN [type |-> "bullet", content |-> Trim(DropFirst(t, 2))]
    ELSE IF OrderedPrefixLen(t) > 0
         THEN [type |-> "ordered", content |-> Trim(DropFirst(t, OrderedPrefixLen(t)))]
    ELSE IF StartsWith(t, <<">", " ">>) THEN [type |-> "quote", content |-> Trim(DropFirst(t, 2))]
    ELSE IF t = <<">">> THEN [type |-> "text", content |-> <<">">>]
    ELSE IF StartsWith(t, <<"bq", "bq", "bq">>) THEN [type |-> "code", content |-> CodePlaceholder]
    ELSE IF Includes(t, <<"!", "[">>) /\ Includes(t, <<"]", "(">>)
         THEN [type |-> "image", content |-> ImagePlaceholder]
    ELSE [type |-> "text", content |-> t]

RECURSIVE ParseFrom(_, _)
ParseFrom(lines, i) ==
    IF i > Len(lines) THEN <<>>
    ELSE LET t == Trim(lines[i])
         IN  IF t = <<>> THEN ParseFrom(lines, i + 1)
             ELSE LET c == ClassifyLine(t)
                  IN  <<[type |-> c.type,
                         content |-> Substring(c.content, 0, StructContentMax),
                         line |-> i - 1]>> \o ParseFrom(lines, i + 1)

parseMarkdownStructure(lines) == ParseFrom(lines, 1)

-----------------------------------------------------------------------------
(* getBlockContentPreview *)

TextPreviewMax == 50
MarkedPreviewMax == 40
Ellipsis == <<".", ".", ".">>

Truncated(s, n) == Substring(s, 0, n) \o (IF Len(s) > n THEN Ellipsis ELSE <<>>)

\* A block is [block_id, block_type, field, content]: field names the payload
\* the block carries (block.text, block.heading1, ...), content is the text of
\* its text_run elements joined (for a code block: its language).
getBlockContentPreview(block) ==
    CASE block.field = "text" -> Truncated(block.content, TextPreviewMax)
      [] block.field = "heading1" -> <<"H", "1", ":", " ">> \o Truncated(block.content, MarkedPreviewMax)
      [] block.field = "heading2" -> <<"H", "2", ":", " ">> \o Truncated(block.content, MarkedPreviewMax)
      [] block.field = "heading3" -> <<"H", "3", ":", " ">> \o Truncated(block.content, MarkedPreviewMax)
      [] block.field = "bullet" -> <<"bullet", " ">> \o Truncated(block.content, MarkedPreviewMax)
      [] block.field = "ordered" -> <<"1", ".", " ">> \o Truncated(block.content, MarkedPreviewMax)
      [] block.field = "quote" -> <<">", " ">> \o Truncated(block.content, MarkedPreviewMax)
      [] block.field = "image" -> ImagePlaceholder
      [] block.field = "code" /\ block.content # <<>> ->
            <<"[", "dai", "ma", "kuai", ":", " ">> \o block.content \o <<"]">>
      [] OTHER -> <<"[">> \o NumStr(block.block_type) \o <<"]">>

-----------------------------------------------------------------------------
(* cleanContentForComparison *)

\* the leading "h<digits>:" heading marker (any case) and the white space after it
StripHeadingMarker(s) ==
    IF s # <<>> /\ LowerOf(s[1]) = "h"
    THEN LET d == LeadingDigits(Tail(s))
         IN  IF d > 0 /\ Len(s) >= d + 2 /\ s[d + 2] = ":"
             THEN TrimStart(DropFirst(s, d + 2)) ELSE s
    ELSE s

\* the leading "<digits>." list marker and the white space after it
StripOrderedMarker(s) ==
    LET d == LeadingDigits(s)
    IN  IF d > 0 /\ Len(s) >= d + 1 /\ s[d + 1] = "."
        THEN TrimStart(DropFirst(s, d + 1)) ELSE s

\* the leading "-" or "*" list marker and the white space after it
StripBulletMarker(s) ==
    IF s # <<>> /\ s[1] \in {"-", "*"} THEN TrimStart(Tail(s)) ELSE s

\* the characters the symbol-removing replace leaves in place: word characters,
\* white space, CJK ideographs, ">" and "!"
KeptChar(c) == IsWordChar(c) \/ IsSpace(c) \/ c \in CJK \/ c \in {">", "!"}

StripSymbols(s) == SelectSeq(s, KeptChar)

ShortContentMax == 2

cleanContentForComparison(content) ==
    LET cleaned == Trim(ToLowerCase(content))
    IN  IF Len(cleaned) <= ShortContentMax THEN cleaned
        ELSE Trim(StripSymbols(StripBulletMarker(StripOrderedMarker(StripHeadingMarker(cleaned)))))

-----------------------------------------------------------------------------
(* Similarity scoring.  A score is an exact fraction [n, d] with d > 0; the   *)
(* code computes the same values in double precision.                         *)

Frac(n, d) == [n |-> n, d |-> d]
FracGt(a, b) == a.n * b.d > b.n * a.d
FracGe(a, b) == a.n * b.d >= b.n * a.d
FracEq(a, b) == a.n * b.d = b.n * a.d
Zero == Frac(0, 1)
One == Frac(1, 1)

Min3(a, b, c) == Min(a, Min(b, c))

\* one row of the dynamic-programming matrix: cur holds matrix[j][0..Len(cur)-1]
RECURSIVE LevRow(_, _, _, _)
LevRow(prev, cur, str1, ch) ==
    LET i == Len(cur)
    IN  IF i > Len(str1) THEN cur
        ELSE LevRow(prev,
                    Append(cur, Min3(cur[i] + 1,
                                     prev[i + 1] + 1,
                                     prev[i] + (IF str1[i] = ch THEN 0 ELSE 1))),
                    str1, ch)

RECURSIVE LevRows(_, _, _, _)
LevRows(prev, str1, str2, j) ==
    IF j > Len(str2) THEN prev
    ELSE LevRows(LevRow(prev, <<j>>, str1, str2[j]), str1, str2, j + 1)

levenshteinDistance(str1, str2) ==
    LevRows([i \in 1..(Len(str1) + 1) |-> i - 1], str1, str2, 1)[Len(str1) + 1]

calculateCharacterSimilarity(str1, str2) ==
    IF Len(str1) = 0 /\ Len(str2) = 0 THEN One
    ELSE IF Len(str1) = 0 \/ Len(str2) = 0 THEN Zero
    ELSE LET maxLength == Max(Len(str1), Len(str2))
             distance == levenshteinDistance(str1, str2)
         IN  Frac(Max(0, maxLength - distance), maxLength)

\* s.split(/\s+/) on a trimmed string
RECURSIVE SplitWords(_, _)
SplitWords(s, word) ==
    IF s = <<>> THEN <<word>>
    ELSE IF IsSpace(s[1])
         THEN <<word>> \o SplitWords(TrimStart(s), <<>>)
         ELSE SplitWords(Tail(s), Append(word, s[1]))

LongWord(w) == Len(w) > 1
Words(s) == SelectSeq(SplitWords(s, <<>>), LongWord)

InSeq(x, q) == \E i \in 1..Len(q) : q[i] = x

CommonCount(words1, words2) ==
    Cardinality({i \in 1..Len(words1) : InSeq(words1[i], words2)})

\* calculateAdvancedContentSimilarity after the two contents have been cleaned
CleanSimilarity(clean1, clean2) ==
    LET minLen == Min(Len(clean1), Len(clean2))
        maxLen == Max(Len(clean1), Len(clean2))
        words1 == Words(clean1)
        words2 == Words(clean2)
        common == CommonCount(words1, words2)
        most == Max(Len(words1), Len(words2))
    IN  IF clean1 = clean2 THEN One
        \* lengthRatio < 0.3
        ELSE IF 10 * minLen < 3 * maxLen THEN Zero
        ELSE IF Includes(clean1, clean2) /\ Len(clean2) >= 3 THEN Frac(8, 10)
        ELSE IF Includes(clean2, clean1) /\ Len(clean1) >= 3 THEN Frac(8, 10)
        ELSE IF Len(words1) = 0 \/ Len(words2) = 0
             THEN calculateCharacterSimilarity(clean1, clean2)
        ELSE IF common = 0 THEN Zero
        ELSE IF 10 * common >= 8 * most THEN Frac(9, 10)
        ELSE IF 10 * common >= 6 * most THEN Frac(7, 10)
        ELSE IF 10 * common >= 4 * most THEN Frac(5, 10)
        ELSE IF 10 * common >= 2 * most THEN Frac(3, 10)
        ELSE Frac(1, 10)

calculateAdvancedContentSimilarity(content1, content2) ==
    IF content1 = <<>> \/ content2 = <<>> THEN Zero
    ELSE The({CleanSimilarity(clean1, clean2) :
                 clean1 \in {cleanContentForComparison(content1)},
                 clean2 \in {cleanContentForComparison(content2)}})

\* mapBlockTypeToMarkdown on the numeric block types of the conversion API
mapBlockTypeToMarkdown(blockType) ==
    CASE blockType = 2 -> "text"
      [] blockType = 3 -> "heading1"
      [] blockType = 4 -> "heading2"
      [] blockType = 5 -> "heading3"
      [] blockType = 13 -> "ordered"
      [] blockType = 14 -> "bullet"
      [] blockType = 15 -> "quote"
      [] blockType = 16 -> "code"
      [] blockType = 27 -> "image"
      [] blockType = 31 -> "table"
      [] OTHER -> "text"

\* the type-match base score, in thousandths
TypeScore(block, struct, blockContent) ==
    LET blockType == mapBlockTypeToMarkdown(block.block_type)
    IN  IF blockType = struct.type
        THEN (IF blockType \in {"ordered", "bullet"} THEN 600 ELSE 400)
        ELSE IF struct.type = "quote" /\ block.block_type = 15
             THEN (IF Includes(blockContent, <<"[", "!">>) THEN 350 ELSE 400)
             ELSE 0

\* calculateContentMatchScore once the preview of the block has been taken
ScoreOfPreview(block, struct, blockContent) ==
    LET typeScore == TypeScore(block, struct, blockContent)
        Weighted(contentScore) ==
            IF typeScore > 0
            THEN Frac(typeScore * contentScore.d + 600 * contentScore.n,
                      1000 * contentScore.d)
            \* contentScore > 0.8 gives contentScore * 0.5
            ELSE IF FracGt(contentScore, Frac(8, 10))
                 THEN Frac(contentScore.n, 2 * contentScore.d)
            ELSE Zero
    IN  IF blockContent = <<>> \/ struct.content = <<>> THEN Zero
        ELSE IF cleanContentForComparison(blockContent)
                  = cleanContentForComparison(struct.content) THEN One
        ELSE The({Weighted(contentScore) : contentScore \in
                    {calculateAdvancedContentSimilarity(blockContent, struct.content)}})

calculateContentMatchScore(block, struct) ==
    The({ScoreOfPreview(block, struct, blockContent) :
            blockContent \in {getBlockContentPreview(block)}})

MatchThreshold == Frac(5, 10)

\* a comparison that lets a later block of the same score take the place
ImprovesOrTies(score, bestScore) == FracGe(score, bestScore)

\* if (score > bestScore)
Improves(score, bestScore) == FracGt(score, bestScore)

\* The inner loop of reorderBlocksByImprovedMatching from blockIndex on:
\* [match, score] after the loop (match 0 stands for the code's -1; block
\* indices are 1-based here).
RECURSIVE BestMatchFrom(_, _, _, _, _)
BestMatchFrom(bs, struct, used, blockIndex, best) ==
    IF blockIndex > Len(bs) THEN best
    ELSE IF blockIndex \in used THEN BestMatchFrom(bs, struct, used, blockIndex + 1, best)
    ELSE The({BestMatchFrom(bs, struct, used, blockIndex + 1,
                            IF Improves(score, best.score)
                            THEN [match |-> blockIndex, score |-> score]
                            ELSE best) :
                 score \in {calculateContentMatchScore(bs[blockIndex], struct)}})

BestMatch(bs, struct, used) ==
    BestMatchFrom(bs, struct, used, 1, [match |-> 0, score |-> Zero])

\* the acceptance test with the threshold forgotten
AcceptsAnyCandidate(best) == best.match # 0

\* if (bestMatch !== -1 && bestScore >= 0.5)
Accepts(best) == best.match # 0 /\ FracGe(best.score, MatchThreshold)

\* the trailing loop left out: unmatched blocks are lost
UnusedDropped(bs, used, blockIndex) == <<>>

\* the trailing loop run backwards: the unused blocks in reverse input order
RECURSIVE UnusedReversed(_, _, _)
UnusedReversed(bs, used, blockIndex) ==
    IF blockIndex > Len(bs) THEN <<>>
    ELSE UnusedReversed(bs, used, blockIndex + 1)
         \o (IF blockIndex \in used THEN <<>> ELSE <<bs[blockIndex]>>)

\* the trailing loop: the unused blocks in input order
RECURSIVE UnusedFrom(_, _, _)
UnusedFrom(bs, used, blockIndex) ==
    IF blockIndex > Len(bs) THEN <<>>
    ELSE (IF blockIndex \in used THEN <<>> ELSE <<bs[blockIndex]>>)
         \o UnusedFrom(bs, used, blockIndex + 1)

-----------------------------------------------------------------------------
(* Inputs of the reconciler *)

sAb == <<"A", "b">>
sAbCd == <<"a", "b", " ", "c", "d">>
sAbXy == <<"a", "b", " ", "x", "y">>
LongLen == 45
sLong == [i \in 1..LongLen |-> "a"]

LinePool ==
    { <<"#", " ">> \o sAb,          \* # Ab
      <<"-", " ">> \o sAbCd,        \* - ab cd
      <<"1", ".", " ">> \o sAbXy,   \* 1. ab xy
      <<">", " ">> \o sAbCd,        \* > ab cd
      sAbCd,                        \* ab cd
      <<>> }                        \* a blank line

\* what the conversion API returns for a line: [block_type, field, content]
BlockPool ==
    { [block_type |-> 3, field |-> "heading1", content |-> sAb],
      [block_type |-> 14, field |-> "bullet", content |-> sAbCd],
      [block_type |-> 14, field |-> "bullet", content |-> sAbXy],
      [block_type |-> 13, field |-> "ordered", content |-> sAbXy],
      [block_type |-> 15, field |-> "quote", content |-> sAbCd],
      [block_type |-> 2, field |-> "text", content |-> sAbCd],
      [block_type |-> 2, field |-> "text", content |-> <<"x">>] }

SeqsUpTo(S, n) == UNION {[1..k -> S] : k \in 0..n}

\* the conversion API gives every block a temporary id; here its position
WithIds(descr) ==
    [i \in 1..Len(descr) |->
        [block_id |-> i, block_type |-> descr[i].block_type,
         field |-> descr[i].field, content |-> descr[i].content]]

-----------------------------------------------------------------------------
(* The components a specification does not exercise *)

RecOff ==
    /\ mdLines = <<>>
    /\ blocks = <<>>
    /\ markdownStructure = <<>>
    /\ structIndex = 0
    /\ usedBlockIndices = {}
    /\ reorderedBlocks = <<>>
    /\ matchLog = <<>>
    /\ recPc = "off"

ValOff ==
    /\ valInput = <<>>
    /\ fixedBlocks = <<>>
    /\ valIndex = 0
    /\ valPc = "off"

NoResult == [success |-> FALSE, documentId |-> "", error |-> "pending"]

SuOff ==
    /\ suHistoryHasDoc = FALSE
    /\ suRemoteChildren = 0
    /\ suToCreate = 0
    /\ suCreated = 0
    /\ suCalls = <<>>
    /\ suResult = NoResult
    /\ suPc = "off"

CoOff ==
    /\ coPath = "converter"
    /\ coListsPage = FALSE
    /\ coDoc = <<>>
    /\ coCallouts = <<>>
    /\ coMatches = <<>>
    /\ coItem = 0
    /\ coCalls = <<>>
    /\ coConverted = 0
    /\ coPc = "off"

DqOff ==
    /\ deleteRequestQueue = <<>>
    /\ isProcessingDeleteQueue = FALSE
    /\ lastDeleteRequestTime = 0
    /\ now = 0
    /\ dqEnqueued = 0
    /\ dqConsumers = <<>>
    /\ dqInFlight = {}
    /\ dqDispatched = <<>>
    /\ dqSettled = <<>>

RtOff ==
    /\ rtKind = "permission"
    /\ rtNow = 0
    /\ retryCount = 0
    /\ rtAttempts = <<>>
    /\ rtError = "none"
    /\ rtPc = "off"

LpOff ==
    /\ lpVault = <<>>
    /\ uploadedDocuments = {}
    /\ processingDocuments = {}
    /\ lpLink = <<>>
    /\ lpResults = <<>>
    /\ lpUploads = <<>>
    /\ lpPc = <<>>

ScOff ==
    /\ scBlock = <<>>
    /\ scLine = <<>>
    /\ scScore = Zero
    /\ scPc = "off"

PlOff ==
    /\ plRemoteChildren = 0
    /\ plListing = <<>>
    /\ plNonTable = 0
    /\ plTables = 0
    /\ plTableRows = FALSE
    /\ plI = 0
    /\ plCurrentIndex = 0
    /\ plIssued = <<>>
    /\ plInFlight = {}
    /\ plFailed = {}
    /\ plDoc = <<>>
    /\ plPc = "off"

PnOff ==
    /\ pnInput = <<>>
    /\ pnOutput = <<>>
    /\ pnPc = "off"

SdOff ==
    /\ sdArgs = <<>>
    /\ sdResult = [returned |-> FALSE, value |-> FALSE]

WlOff ==
    /\ wlContent = <<>>
    /\ wikiLinks = <<>>
    /\ wlI = 0
    /\ wlUploaded = {}
    /\ processedContent = <<>>
    /\ wlPc = "off"

PpOff ==
    /\ ppMarkdown = <<>>
    /\ ppOut = <<>>

ImOff ==
    /\ imMaxRetries = 0
    /\ imRetryCount = 0
    /\ imQueries = 0
    /\ imLast = "none"
    /\ imPc = "off"

notRecVars == <<valVars, suVars, coVars, dqVars, rtVars, lpVars, scVars, plVars, pnVars, sdVars, wlVars, ppVars, imVars>>
notValVars == <<recVars, suVars, coVars, dqVars, rtVars, lpVars, scVars, plVars, pnVars, sdVars, wlVars, ppVars, imVars>>
notSuVars == <<recVars, valVars, coVars, dqVars, rtVars, lpVars, scVars, plVars, pnVars, sdVars, wlVars, ppVars, imVars>>
notCoVars == <<recVars, valVars, suVars, dqVars, rtVars, lpVars, scVars, plVars, pnVars, sdVars, wlVars, ppVars, imVars>>
notDqVars == <<recVars, valVars, suVars, coVars, rtVars, lpVars, scVars, plVars, pnVars, sdVars, wlVars, ppVars, imVars>>
notRtVars == <<recVars, valVars, suVars, coVars, dqVars, lpVars, scVars, plVars, pnVars, sdVars, wlVars, ppVars, imVars>>
notLpVars == <<recVars, valVars, suVars, coVars, dqVars, rtVars, scVars, plVars, pnVars, sdVars, wlVars, ppVars, imVars>>
notScVars == <<recVars, valVars, suVars, coVars, dqVars, rtVars, lpVars, plVars, pnVars, sdVars, wlVars, ppVars, imVars>>
notPlVars == <<recVars, valVars, suVars, coVars, dqVars, rtVars, lpVars, scVars, pnVars, sdVars, wlVars, ppVars, imVars>>
notPnVars == <<recVars, valVars, suVars, coVars, dqVars, rtVars, lpVars, scVars, plVars, sdVars, wlVars, ppVars, imVars>>
notSdVars == <<recVars, valVars, suVars, coVars, dqVars, rtVars, lpVars, scVars, plVars, pnVars, wlVars, ppVars, imVars>>
notWlVars == <<recVars, valVars, suVars, coVars, dqVars, rtVars, lpVars, scVars, plVars, pnVars, sdVars, ppVars, imVars>>
notPpVars == <<recVars, valVars, suVars, coVars, dqVars, rtVars, lpVars, scVars, plVars, pnVars, sdVars, wlVars, imVars>>
notImVars == <<recVars, valVars, suVars, coVars, dqVars, rtVars, lpVars, scVars, plVars, pnVars, sdVars, wlVars, ppVars>>

-----------------------------------------------------------------------------
(* Block reconciler *)

RecInit ==
    /\ mdLines \in SeqsUpTo(LinePool, MaxStructs)
    /\ blocks \in {WithIds(d) : d \in SeqsUpTo(BlockPool, MaxBlocks)}
    /\ markdownStructure = <<>>
    /\ structIndex = 0
    /\ usedBlockIndices = {}
    /\ reorderedBlocks = <<>>
    /\ matchLog = <<>>
    /\ recPc = "idle"
    /\ ValOff /\ SuOff /\ CoOff /\ DqOff /\ RtOff /\ LpOff /\ ScOff /\ PlOff /\ PnOff /\ SdOff /\ WlOff /\ PpOff /\ ImOff

\* validateAndFixBlockOrder up to the first iteration of the matching loop
validateAndFixBlockOrder ==
    /\ recPc = "idle"
    /\ markdownStructure' = parseMarkdownStructure(mdLines)
    /\ structIndex' = 1
    /\ usedBlockIndices' = {}
    /\ reorderedBlocks' = <<>>
    /\ matchLog' = <<>>
    /\ recPc' = "match"
    /\ UNCHANGED <<mdLines, blocks>>
    /\ UNCHANGED notRecVars

\* one iteration of the outer loop of reorderBlocksByImprovedMatching
MatchStructure ==
    /\ recPc = "match"
    /\ structIndex <= Len(markdownStructure)
    /\ \E best \in {BestMatch(blocks, markdownStructure[structIndex], usedBlockIndices)} :
           /\ IF Accepts(best)
              THEN /\ reorderedBlocks' = Append(reorderedBlocks, blocks[best.match])
                   /\ usedBlockIndices' = usedBlockIndices \cup {best.match}
              ELSE UNCHANGED <<reorderedBlocks, usedBlockIndices>>
           /\ matchLog' = Append(matchLog,
                [structIndex |-> structIndex, matched |-> Accepts(best),
                 bestMatch |-> best.match, bestScore |-> best.score,
                 usedBefore |-> usedBlockIndices])
    /\ structIndex' = structIndex + 1
    /\ UNCHANGED <<mdLines, blocks, markdownStructure, recPc>>
    /\ UNCHANGED notRecVars

\* the trailing loop of reorderBlocksByImprovedMatching and its return
AppendUnused ==
    /\ recPc = "match"
    /\ structIndex > Len(markdownStructure)
    /\ reorderedBlocks' = reorderedBlocks \o UnusedFrom(blocks, usedBlockIndices, 1)
    /\ recPc' = "done"
    /\ UNCHANGED <<mdLines, blocks, markdownStructure, structIndex,
                   usedBlockIndices, matchLog>>
    /\ UNCHANGED notRecVars

RecNext == validateAndFixBlockOrder \/ MatchStructure \/ AppendUnused

SpecReconcile == RecInit /\ [][RecNext]_vars

-----------------------------------------------------------------------------
(* The reconciler on list items and paragraphs of similar text *)

sAbCdXy == sAbCd \o <<" ", "x", "y">>

ListLinePool ==
    { <<"-", " ">> \o sAbCd,        \* - ab cd
      sAbCd,                        \* ab cd
      <<"1", ".", " ">> \o sAbXy }  \* 1. ab xy

\* a list item and a paragraph with the text of the line, and each of them
\* with a text that contains it
ListBlockPool ==
    { [block_type |-> 14, field |-> "bullet", content |-> sAbCd],
      [block_type |-> 14, field |-> "bullet", content |-> sAbCdXy],
      [block_type |-> 2, field |-> "text", content |-> sAbCd],
      [block_type |-> 2, field |-> "text", content |-> sAbCdXy] }

RecListInit ==
    /\ mdLines \in SeqsUpTo(ListLinePool, MaxStructs)
    /\ blocks \in {WithIds(d) : d \in SeqsUpTo(ListBlockPool, MaxBlocks)}
    /\ markdownStructure = <<>>
    /\ structIndex = 0
    /\ usedBlockIndices = {}
    /\ reorderedBlocks = <<>>
    /\ matchLog = <<>>
    /\ recPc = "idle"
    /\ ValOff /\ SuOff /\ CoOff /\ DqOff /\ RtOff /\ LpOff /\ ScOff /\ PlOff /\ PnOff /\ SdOff /\ WlOff /\ PpOff /\ ImOff

SpecReconcileLists == RecListInit /\ [][RecNext]_vars

\* the block and the element have the same cleaned content, the case in which
\* calculateContentMatchScore returns 1.0
ExactMatch(block, struct) ==
    /\ getBlockContentPreview(block) # <<>>
    /\ struct.content # <<>>
    /\ cleanContentForComparison(getBlockContentPreview(block))
          = cleanContentForComparison(struct.content)

\* entry i of the log: a block that was still unused is an exact match of
\* the element
ExactWasUnused(i) ==
    \E b \in (1..Len(blocks)) \ matchLog[i].usedBefore :
        ExactMatch(blocks[b], markdownStructure[matchLog[i].structIndex])

\* C37: when an unused block is an exact match of an element, the block
\* the reconciler assigns to the element is an exact match.
C37_ExactMatchIsNotOutscored ==
    \A i \in 1..Len(matchLog) :
        ExactWasUnused(i) =>
            /\ matchLog[i].matched
            /\ ExactMatch(blocks[matchLog[i].bestMatch],
                          markdownStructure[matchLog[i].structIndex])

\* what holds of C37: an element that is no list item gets an exact match
\* when there is one, and a list item gets a block that scores 1.0 or more
ExactMatchWinsOutsideLists ==
    \A i \in 1..Len(matchLog) :
        ExactWasUnused(i) =>
            /\ matchLog[i].matched
            /\ FracGe(matchLog[i].bestScore, One)
            /\ markdownStructure[matchLog[i].structIndex].type \notin {"ordered", "bullet"}
                  => ExactMatch(blocks[matchLog[i].bestMatch],
                                markdownStructure[matchLog[i].structIndex])

-----------------------------------------------------------------------------
(* Relationship validator *)

\* A block is [block_id, block_type, parent_id, children].  parent_id 0 is an
\* absent parent_id, children <<>> an absent children array (the function
\* deletes an array it has emptied).  An entry of children is an object that
\* carries a block_id, or the bare id string the conversion API returns.
ChildEntries(ids) ==
    [form : {"object"}, id : ids] \cup [form : {"string"}, id : ids]

\* child.block_id: undefined (0) on a bare id string
ChildBlockId(child) == IF child.form = "object" THEN child.id ELSE 0

\* blockMap.has and blockMap.get, the map being keyed by block_id
BlockMapHas(bs, id) == \E i \in 1..Len(bs) : bs[i].block_id = id
BlockMapGet(bs, id) ==
    CHOOSE i \in 1..Len(bs) :
        /\ bs[i].block_id = id
        /\ \A j \in (i + 1)..Len(bs) : bs[j].block_id # id

ValidRelations(parentMdType) ==
    CASE parentMdType = "ordered" -> {"text", "ordered", "bullet"}
      [] parentMdType = "bullet" -> {"text", "ordered", "bullet"}
      [] parentMdType = "quote" -> {"text", "heading1", "heading2", "heading3",
                                    "ordered", "bullet", "quote"}
      [] OTHER -> {}

isValidParentChildRelation(parentType, childType) ==
    mapBlockTypeToMarkdown(childType) \in ValidRelations(mapBlockTypeToMarkdown(parentType))

\* step 1 of an iteration: a parent_id that is not in the map is deleted
DropMissingParent(bs, i) ==
    IF bs[i].parent_id # 0 /\ ~BlockMapHas(bs, bs[i].parent_id)
    THEN [bs EXCEPT ![i].parent_id = 0]
    ELSE bs

\* step 2: block.children.forEach from entry k on; valid is validChildren
RECURSIVE FixChildrenFrom(_, _, _, _)
FixChildrenFrom(bs, i, k, valid) ==
    IF k > Len(bs[i].children)
    THEN [bs EXCEPT ![i].children = valid]
    ELSE LET child == bs[i].children[k]
             id == ChildBlockId(child)
         IN  IF id # 0 /\ BlockMapHas(bs, id)
             THEN FixChildrenFrom(
                      [bs EXCEPT ![BlockMapGet(bs, id)].parent_id = bs[i].block_id],
                      i, k + 1, Append(valid, child))
             ELSE FixChildrenFrom(bs, i, k + 1, valid)

\* step 3: a parent of a type that cannot hold the block is deleted
DropInvalidParent(bs, i) ==
    IF /\ bs[i].parent_id # 0
       /\ BlockMapHas(bs, bs[i].parent_id)
       /\ ~isValidParentChildRelation(bs[BlockMapGet(bs, bs[i].parent_id)].block_type,
                                      bs[i].block_type)
    THEN [bs EXCEPT ![i].parent_id = 0]
    ELSE bs

FixBlock(bs, i) == DropInvalidParent(FixChildrenFrom(DropMissingParent(bs, i), i, 1, <<>>), i)

ValTypes == {2, 14}                  \* text, bullet

ValBlockLists(n) ==
    LET ids == 1..n
        any == 1..(n + 1)            \* n + 1 is the id of no block
    IN  [ids -> [block_id : ids, block_type : ValTypes, parent_id : {0} \cup any,
                 children : SeqsUpTo(ChildEntries(any), MaxChildren)]]

ValInit ==
    /\ valInput \in {bs \in UNION {ValBlockLists(n) : n \in 1..MaxValBlocks} :
                        \A i \in 1..Len(bs) : bs[i].block_id = i}
    /\ fixedBlocks = <<>>
    /\ valIndex = 0
    /\ valPc = "idle"
    /\ RecOff /\ SuOff /\ CoOff /\ DqOff /\ RtOff /\ LpOff /\ ScOff /\ PlOff /\ PnOff /\ SdOff /\ WlOff /\ PpOff /\ ImOff

\* the copy of the blocks and the building of blockMap
ValCopyBlocks ==
    /\ valPc = "idle"
    /\ fixedBlocks' = valInput
    /\ valIndex' = 1
    /\ valPc' = "fix"
    /\ UNCHANGED valInput
    /\ UNCHANGED notValVars

\* one iteration of the second forEach
ValFixBlock ==
    /\ valPc = "fix"
    /\ valIndex <= Len(fixedBlocks)
    /\ fixedBlocks' = FixBlock(fixedBlocks, valIndex)
    /\ valIndex' = valIndex + 1
    /\ UNCHANGED <<valInput, valPc>>
    /\ UNCHANGED notValVars

ValReturn ==
    /\ valPc = "fix"
    /\ valIndex > Len(fixedBlocks)
    /\ valPc' = "done"
    /\ UNCHANGED <<valInput, fixedBlocks, valIndex>>
    /\ UNCHANGED notValVars

ValNext == ValCopyBlocks \/ ValFixBlock \/ ValReturn

SpecValidate == ValInit /\ [][ValNext]_vars

-----------------------------------------------------------------------------
(* Properties of the relationship validator *)

ChildIds(block) == [k \in 1..Len(block.children) |-> block.children[k].id]
Occurrences(q, x) == Cardinality({k \in 1..Len(q) : q[k] = x})

\* C2: in the list the validator returns, every block with a parent_id has
\* its parent in the list and its own id exactly once in the parent's
\* children; no block names a parent that is not in the list.
C2_ParentChildInvariant ==
    valPc = "done" =>
        \A i \in 1..Len(fixedBlocks) :
            fixedBlocks[i].parent_id # 0 =>
                /\ BlockMapHas(fixedBlocks, fixedBlocks[i].parent_id)
                /\ Occurrences(
                       ChildIds(fixedBlocks[BlockMapGet(fixedBlocks,
                                                        fixedBlocks[i].parent_id)]),
                       fixedBlocks[i].block_id) = 1

\* the part of C2 that the validator does establish
ParentsExist ==
    valPc = "done" =>
        \A i \in 1..Len(fixedBlocks) :
            fixedBlocks[i].parent_id # 0 =>
                BlockMapHas(fixedBlocks, fixedBlocks[i].parent_id)

\* C15: once the validator has returned, every entry of a block's children
\* names a block of the list, and that block's parent_id is the block that
\* lists it.
C15_ChildrenPointBack ==
    valPc = "done" =>
        \A i \in 1..Len(fixedBlocks) :
            \A k \in 1..Len(fixedBlocks[i].children) :
                LET id == ChildBlockId(fixedBlocks[i].children[k])
                IN  /\ BlockMapHas(fixedBlocks, id)
                    /\ fixedBlocks[BlockMapGet(fixedBlocks, id)].parent_id =
                          fixedBlocks[i].block_id

\* the part of C15 that the validator does establish
ChildrenExist ==
    valPc = "done" =>
        \A i \in 1..Len(fixedBlocks) :
            \A k \in 1..Len(fixedBlocks[i].children) :
                BlockMapHas(fixedBlocks, ChildBlockId(fixedBlocks[i].children[k]))

-----------------------------------------------------------------------------
(* Smart update *)

BATCH_SIZE == 50

\* a remote call: which method, whether it succeeded, and its index range
Call(op, ok, from, to) == [op |-> op, ok |-> ok, from |-> from, to |-> to]

\* what a smart update that fell back to plain creation on a failure would
\* return: the id of a newly created document
SuFallsBack(step) ==
    /\ suResult' = [success |-> TRUE, documentId |-> "new", error |-> ""]
    /\ suPc' = "done"

\* the catch of performSmartUpdate: the message of the failed step, prefixed
SuFail(step) ==
    /\ suResult' = [success |-> FALSE, documentId |-> "", error |-> step]
    /\ suPc' = "done"

\* block counts the conversion may return: none, one batch, a full batch, more
NewBlockCounts == {0, 1, BATCH_SIZE, BATCH_SIZE + 1, 2 * BATCH_SIZE + 1}

SuInit ==
    /\ suHistoryHasDoc \in BOOLEAN
    /\ suRemoteChildren \in 0..MaxRemoteChildren
    /\ suToCreate = 0
    /\ suCreated = 0
    /\ suCalls = <<>>
    /\ suResult = NoResult
    /\ suPc = "idle"
    /\ RecOff /\ ValOff /\ CoOff /\ DqOff /\ RtOff /\ LpOff /\ ScOff /\ PlOff /\ PnOff /\ SdOff /\ WlOff /\ PpOff /\ ImOff

\* performSmartUpdate up to deleteAllChildBlocks: findExistingDocument reads
\* the upload history, getDocumentRootBlockId returns the document id
findExistingDocument ==
    /\ suPc = "idle"
    /\ IF suHistoryHasDoc
       THEN /\ suPc' = "clear"
            /\ UNCHANGED suResult
       ELSE /\ suResult' = [success |-> FALSE, documentId |-> "",
                            error |-> "no document of this title"]
            /\ suPc' = "done"
    /\ UNCHANGED <<suHistoryHasDoc, suRemoteChildren, suToCreate, suCreated, suCalls>>
    /\ UNCHANGED notSuVars

\* deleteAllChildBlocks: the listing of the blocks of the document
getDocumentBlocksDetailed ==
    /\ suPc = "clear"
    /\ \E ok \in BOOLEAN :
          /\ suCalls' = Append(suCalls, Call("getDocumentBlocksDetailed", ok, 0, 0))
          /\ IF ok
             THEN /\ suPc' = IF suRemoteChildren = 0 THEN "reimport" ELSE "delete"
                  /\ UNCHANGED suResult
             ELSE SuFail("deleteAllChildBlocks")
    /\ UNCHANGED <<suHistoryHasDoc, suRemoteChildren, suToCreate, suCreated>>
    /\ UNCHANGED notSuVars

\* deleteAllChildBlocks: the ranged delete of [0, childBlocks.length)
batchDeleteDocumentBlocks ==
    /\ suPc = "delete"
    /\ \E ok \in BOOLEAN :
          /\ suCalls' = Append(suCalls,
                 Call("batchDeleteDocumentBlocks", ok, 0, suRemoteChildren))
          /\ IF ok
             THEN /\ suRemoteChildren' = 0
                  /\ suPc' = "reimport"
                  /\ UNCHANGED suResult
             ELSE /\ SuFail("deleteAllChildBlocks")
                  /\ UNCHANGED suRemoteChildren
    /\ UNCHANGED <<suHistoryHasDoc, suToCreate, suCreated>>
    /\ UNCHANGED notSuVars

\* reimportContent, step 1: the read of the document itself
validateDocumentAccess ==
    /\ suPc = "reimport"
    /\ \E ok \in BOOLEAN :
          /\ suCalls' = Append(suCalls, Call("validateDocumentAccess", ok, 0, 0))
          /\ IF ok
             THEN /\ suPc' = "convert"
                  /\ UNCHANGED suResult
             ELSE SuFail("reimportContent")
    /\ UNCHANGED <<suHistoryHasDoc, suRemoteChildren, suToCreate, suCreated>>
    /\ UNCHANGED notSuVars

\* reimportContent, steps 3 to 8: the conversion and the local passes over
\* its blocks; an empty conversion is an error
convertMarkdownToBlocks ==
    /\ suPc = "convert"
    /\ \E ok \in BOOLEAN, n \in NewBlockCounts :
          /\ suCalls' = Append(suCalls, Call("convertMarkdownToBlocks", ok, 0, n))
          /\ IF ok /\ n > 0
             THEN /\ suToCreate' = n
                  /\ suPc' = "create"
                  /\ UNCHANGED suResult
             ELSE /\ SuFail("reimportContent")
                  /\ UNCHANGED suToCreate
    /\ UNCHANGED <<suHistoryHasDoc, suRemoteChildren, suCreated>>
    /\ UNCHANGED notSuVars

\* one iteration of the loop of createNonTableBlocksInBatches
createNonTableBlocksInBatches ==
    /\ suPc = "create"
    /\ suCreated < suToCreate
    /\ \E ok \in BOOLEAN :
          LET batch == Min(BATCH_SIZE, suToCreate - suCreated)
          IN  /\ suCalls' = Append(suCalls,
                     Call("createDocumentBlocks", ok, suCreated, suCreated + batch))
              /\ IF ok
                 THEN /\ suCreated' = suCreated + batch
                      /\ suRemoteChildren' = suRemoteChildren + batch
                      /\ UNCHANGED <<suResult, suPc>>
                 ELSE /\ SuFail("reimportContent")
                      /\ UNCHANGED <<suCreated, suRemoteChildren>>
    /\ UNCHANGED <<suHistoryHasDoc, suToCreate>>
    /\ UNCHANGED notSuVars

\* the rest of reimportContent (tables, images, callouts, front matter) and
\* the return of performSmartUpdate
SuFinish ==
    /\ suPc = "create"
    /\ suCreated = suToCreate
    /\ \E ok \in BOOLEAN :
          /\ suCalls' = Append(suCalls, Call("restOfReimportContent", ok, 0, 0))
          /\ IF ok
             THEN /\ suResult' = [success |-> TRUE, documentId |-> "existing", error |-> ""]
                  /\ suPc' = "done"
             ELSE SuFail("reimportContent")
    /\ UNCHANGED <<suHistoryHasDoc, suRemoteChildren, suToCreate, suCreated>>
    /\ UNCHANGED notSuVars

SuNext ==
    \/ findExistingDocument
    \/ getDocumentBlocksDetailed
    \/ batchDeleteDocumentBlocks
    \/ validateDocumentAccess
    \/ convertMarkdownToBlocks
    \/ createNonTableBlocksInBatches
    \/ SuFinish

SpecSmartUpdate == SuInit /\ [][SuNext]_vars

-----------------------------------------------------------------------------
(* Properties of the smart update *)

Mutating(op) == op \in {"batchDeleteDocumentBlocks", "createDocumentBlocks"}

AccessChecks(ok) ==
    {j \in 1..Len(suCalls) :
        suCalls[j].op = "validateDocumentAccess" /\ suCalls[j].ok = ok}

\* C3: every deleting or creating call against the document comes after a
\* successful accessibility read, and an update whose accessibility read
\* failed has ended in a failure without having issued any such call.
C3_AccessCheckedBeforeDestruction ==
    /\ \A k \in 1..Len(suCalls) :
          Mutating(suCalls[k].op) => \E j \in AccessChecks(TRUE) : j < k
    /\ AccessChecks(FALSE) # {} =>
          /\ suPc = "done" /\ ~suResult.success
          /\ \A k \in 1..Len(suCalls) : ~Mutating(suCalls[k].op)

\* the state of the orchestrator the update is in; the search of the history
\* (Locating) is one synchronous step out of Idle
SuState ==
    CASE suPc = "idle" -> "Idle"
      [] suPc \in {"clear", "delete"} -> "Clearing"
      [] suPc = "reimport" -> "Validating"
      [] suPc \in {"convert", "create"} -> "Rebuilding"
      [] suPc = "done" /\ suResult.success -> "Done"
      [] suPc = "done" /\ suResult.error = "no document of this title" -> "NotApplicable"
      [] suPc = "done" -> "Failed"
      [] OTHER -> "Off"

\* the position of a state in Idle, Locating, Validating, Clearing, Rebuilding
SpecOrder(state) ==
    CASE state = "Idle" -> 0
      [] state = "Validating" -> 2
      [] state = "Clearing" -> 3
      [] state = "Rebuilding" -> 4
      [] OTHER -> 5

\* the position of a state in the order the code goes through
CodeOrder(state) ==
    CASE state = "Idle" -> 0
      [] state = "Clearing" -> 2
      [] state = "Validating" -> 3
      [] state = "Rebuilding" -> 4
      [] OTHER -> 5

\* a change of state that follows the given order: forward only, Done out of
\* Rebuilding only, Failed out of Validating, Clearing or Rebuilding only, and
\* the update that finds no document ends out of Idle
FollowsOrder(from, to, ordered) ==
    CASE to = "Done" -> from = "Rebuilding"
      [] to = "Failed" -> from \in {"Validating", "Clearing", "Rebuilding"}
      [] to = "NotApplicable" -> from = "Idle"
      [] OTHER -> ordered

\* C11: a smart update changes state only forward in the order Idle, Locating,
\* Validating, Clearing, Rebuilding, Done; Done is entered from Rebuilding
\* only and Failed from Validating, Clearing or Rebuilding only.
C11_StatesInSpecOrder ==
    [][SuState' # SuState =>
          FollowsOrder(SuState, SuState', SpecOrder(SuState) < SpecOrder(SuState'))]_vars

\* the order the code does follow: Clearing comes before Validating
StatesInCodeOrder ==
    [][SuState' # SuState =>
          FollowsOrder(SuState, SuState', CodeOrder(SuState) < CodeOrder(SuState'))]_vars

\* the calls of Clearing and of Rebuilding
ClearingOrRebuilding(op) ==
    op \in {"getDocumentBlocksDetailed", "batchDeleteDocumentBlocks",
            "convertMarkdownToBlocks", "createDocumentBlocks", "restOfReimportContent"}

\* the call failed, or it is a conversion that returned no block
CallFailed(call) ==
    \/ ~call.ok
    \/ call.op = "convertMarkdownToBlocks" /\ call.to = 0

\* C12: a failure in Clearing or in Rebuilding ends the update at once with a
\* result that is not a success, carries a message and names no document, and
\* no document has been created.
C12_FailureIsReportedWithoutFallback ==
    \A k \in 1..Len(suCalls) :
        (ClearingOrRebuilding(suCalls[k].op) /\ CallFailed(suCalls[k])) =>
            /\ k = Len(suCalls)
            /\ suPc = "done"
            /\ ~suResult.success
            /\ suResult.error # ""
            /\ suResult.documentId = ""
            /\ \A j \in 1..Len(suCalls) : suCalls[j].op # "createDocument"

\* the second batch of a rebuild failed after the old content was deleted and
\* the first batch was created
C12_Witness ==
    /\ suPc = "done"
    /\ Len(suCalls) > 0
    /\ suCalls[Len(suCalls)].op = "createDocumentBlocks"
    /\ ~suCalls[Len(suCalls)].ok
    /\ suCreated > 0
    /\ \E j \in 1..Len(suCalls) :
          suCalls[j].op = "batchDeleteDocumentBlocks" /\ suCalls[j].ok

-----------------------------------------------------------------------------
(* The creations and deletions of one smart update, call by call *)

MaxTables == 2

\* a create or delete call: the function that issues it, the insert index and
\* the slice of blocks it carries
Mutation(op, by, index, from, to) ==
    [op |-> op, by |-> by, index |-> index, from |-> from, to |-> to]

\* a call that is not awaited: the function goes on without its answer
SuspendsNot(awaitPc, nextPc) == nextPc

\* "await" of a call: the function is suspended until the call is answered
Suspends(awaitPc, nextPc) == awaitPc

\* a slice that is not cut: all the blocks from the start index on
SliceToEnd(from, total) == total

\* the end of blocks.slice(i, i + BATCH_SIZE)
SliceEnd(from, total) == Min(from + BATCH_SIZE, total)

\* the call is issued and is in flight
PlIssue(call) ==
    /\ plIssued' = Append(plIssued, call)
    /\ plInFlight' = plInFlight \cup {Len(plIssued) + 1}

\* the call awaited is answered
PlAnswered == plInFlight' = plInFlight \ {Len(plIssued)}

\* the answer of the call awaited: an error is thrown to the caller
PlOutcome(ok) ==
    plFailed' = IF ok THEN plFailed ELSE plFailed \cup {Len(plIssued)}

\* a child of the root block: a non-table block, a table or the text block
\* that stands for a failed table, with its number among the blocks of its kind
Child(kind, of) == [kind |-> kind, of |-> of]

\* the remote document after createDocumentBlocks inserted the blocks at the
\* index under the root block
InsertAt(doc, index, items) ==
    SubSeq(doc, 1, index) \o items \o SubSeq(doc, index + 1, Len(doc))

\* a failure of a table that is not caught: the loop is left
Thrown(handlerPc) == "failed"

\* try / catch around one table: the handler runs and the loop goes on
Caught(handlerPc) == handlerPc

\* the text block replaces the failed table at the start of the tables
FallbackAtStart(startIndex, currentIndex) == startIndex

\* the index the text block that replaces a failed table is created at
FallbackIndex(startIndex, currentIndex) == currentIndex

\* the creation of the text block that replaces table plI is issued while the
\* failed call is answered
PlFallbackIssued ==
    /\ plIssued' = Append(plIssued,
           Mutation("createDocumentBlocks", "processTablesInDocument",
                    FallbackIndex(plNonTable, plCurrentIndex), plI, plI + 1))
    /\ plInFlight' = (plInFlight \ {Len(plIssued)}) \cup {Len(plIssued) + 1}
    /\ plPc' = Caught(Suspends("fallbackAwait", "tableLoop"))
    /\ UNCHANGED <<plI, plCurrentIndex, plDoc>>

\* the blocks of the remote document as the listing answers them: the page
\* block, its children and, after the first child, the blocks below it
Listing(children, nested) ==
    <<[block_id |-> "root", parent_id |-> ""]>>
    \o (IF children = 0 THEN <<>>
        ELSE <<[block_id |-> "child", parent_id |-> "root"]>>
             \o [k \in 1..nested |-> [block_id |-> "nested", parent_id |-> "child"]]
             \o [k \in 1..(children - 1) |->
                    [block_id |-> "child", parent_id |-> "root"]])

\* every block of the listing taken for a child of the root block
AllBlocks(listing, rootBlockId) == listing

\* blocks.filter(block => block.parent_id === rootBlockId)
ChildBlocks(listing, rootBlockId) ==
    SelectSeq(listing, LAMBDA block : block.parent_id = rootBlockId)

PlInit ==
    /\ plRemoteChildren \in 0..MaxRemoteChildren
    /\ plListing \in {Listing(plRemoteChildren, nested) :
                         nested \in 0..(IF plRemoteChildren = 0 THEN 0 ELSE MaxNested)}
    /\ plNonTable \in NewBlockCounts
    /\ plTables \in 0..MaxTables
    /\ plTableRows \in BOOLEAN
    /\ plI = 0
    /\ plCurrentIndex = 0
    /\ plIssued = <<>>
    /\ plInFlight = {}
    /\ plFailed = {}
    /\ plDoc = <<>>
    /\ plPc = "idle"
    /\ RecOff /\ ValOff /\ SuOff /\ CoOff /\ DqOff /\ RtOff /\ LpOff /\ ScOff /\ PnOff /\ SdOff /\ WlOff /\ PpOff /\ ImOff

\* deleteAllChildBlocks: nothing to delete, or the ranged delete is issued
deleteAllChildBlocks ==
    /\ plPc = "idle"
    /\ LET childBlocks == ChildBlocks(plListing, "root")
       IN  IF Len(childBlocks) = 0
           THEN /\ plPc' = "batchLoop"
                /\ UNCHANGED <<plIssued, plInFlight>>
           ELSE /\ PlIssue(Mutation("batchDeleteDocumentBlocks", "deleteAllChildBlocks",
                                    0, 0, Len(childBlocks)))
                /\ plPc' = Suspends("deleteAwait", "batchLoop")
    /\ UNCHANGED <<plRemoteChildren, plListing, plNonTable, plTables, plTableRows, plI, plCurrentIndex,
                   plFailed, plDoc>>
    /\ UNCHANGED notPlVars

\* the ranged delete is answered; a failure ends the update
PlDeleteAnswers ==
    /\ plPc = "deleteAwait"
    /\ PlAnswered
    /\ \E ok \in BOOLEAN :
          /\ PlOutcome(ok)
          /\ IF ok
             THEN /\ plRemoteChildren' = 0
                  /\ plPc' = "batchLoop"
             ELSE /\ plPc' = "failed"
                  /\ UNCHANGED plRemoteChildren
    /\ UNCHANGED <<plListing, plNonTable, plTables, plTableRows, plI, plCurrentIndex,
                   plIssued, plDoc>>
    /\ UNCHANGED notPlVars

\* createNonTableBlocksInBatches, head of the loop: the next slice is issued,
\* or the loop ends and processTablesInDocument starts at nonTableBlocks.length
PlBatchLoop ==
    /\ plPc = "batchLoop"
    /\ IF plI < plNonTable
       THEN /\ PlIssue(Mutation("createDocumentBlocks", "createNonTableBlocksInBatches",
                                plCurrentIndex, plI, SliceEnd(plI, plNonTable)))
            /\ plPc' = Suspends("batchAwait", "batchDelay")
            /\ UNCHANGED <<plI, plCurrentIndex>>
       ELSE /\ plI' = 0
            /\ plCurrentIndex' = plNonTable
            /\ plPc' = "tableLoop"
            /\ UNCHANGED <<plIssued, plInFlight>>
    /\ UNCHANGED <<plRemoteChildren, plListing, plNonTable, plTables, plTableRows, plFailed, plDoc>>
    /\ UNCHANGED notPlVars

\* the batch is answered: currentIndex advances and, if a batch is left, the
\* delay of 500 ms starts; a failure is thrown
PlBatchAnswers ==
    /\ plPc = "batchAwait"
    /\ PlAnswered
    /\ \E ok \in BOOLEAN :
          /\ PlOutcome(ok)
          /\ IF ok
             THEN /\ plDoc' = InsertAt(plDoc, plCurrentIndex,
                             [k \in 1..(SliceEnd(plI, plNonTable) - plI) |->
                                 Child("block", plI + k - 1)])
                  /\ plCurrentIndex' =
                         plCurrentIndex + (SliceEnd(plI, plNonTable) - plI)
                  /\ IF plI + BATCH_SIZE < plNonTable
                     THEN /\ plPc' = "batchDelay"
                          /\ UNCHANGED plI
                     ELSE /\ plPc' = "batchLoop"
                          /\ plI' = plI + BATCH_SIZE
             ELSE /\ plPc' = "failed"
                  /\ UNCHANGED <<plI, plCurrentIndex, plDoc>>
    /\ UNCHANGED <<plRemoteChildren, plListing, plNonTable, plTables, plTableRows, plIssued>>
    /\ UNCHANGED notPlVars

\* the delay between two batches is over
PlBatchDelayEnds ==
    /\ plPc = "batchDelay"
    /\ plI' = plI + BATCH_SIZE
    /\ plPc' = "batchLoop"
    /\ UNCHANGED <<plRemoteChildren, plListing, plNonTable, plTables, plTableRows, plCurrentIndex,
                   plIssued, plInFlight, plFailed, plDoc>>
    /\ UNCHANGED notPlVars

\* processTablesInDocument, head of the loop: createSingleTableBlock issues
\* the creation of the whole table
processTablesInDocument ==
    /\ plPc = "tableLoop"
    /\ IF plI < plTables
       THEN /\ PlIssue(Mutation("createDocumentBlocks", "createSingleTableBlock",
                                plCurrentIndex, plI, plI + 1))
            /\ plPc' = Suspends("directAwait", "tableDelay")
       ELSE /\ plPc' = "done"
            /\ UNCHANGED <<plIssued, plInFlight>>
    /\ UNCHANGED <<plRemoteChildren, plListing, plNonTable, plTables, plTableRows, plI, plCurrentIndex,
                   plFailed, plDoc>>
    /\ UNCHANGED notPlVars

\* the end of one iteration of the table loop that created a block
PlTableCreated(delay) ==
    /\ plCurrentIndex' = plCurrentIndex + 1
    /\ IF delay /\ plI < plTables - 1
       THEN /\ plPc' = "tableDelay"
            /\ UNCHANGED plI
       ELSE /\ plPc' = "tableLoop"
            /\ plI' = plI + 1

\* createSingleTableBlock: the direct creation is answered; on a failure
\* createTableBlockStepByStep issues the creation of the empty table
createSingleTableBlock ==
    /\ plPc = "directAwait"
    /\ \E ok \in BOOLEAN :
          /\ PlOutcome(ok)
          /\ IF ok
             THEN /\ PlAnswered
                  /\ plDoc' = InsertAt(plDoc, plCurrentIndex, <<Child("table", plI)>>)
                  /\ PlTableCreated(TRUE)
                  /\ UNCHANGED plIssued
             ELSE /\ plIssued' = Append(plIssued,
                         Mutation("createDocumentBlocks", "createTableBlockStepByStep",
                                  plCurrentIndex, plI, plI + 1))
                  /\ plInFlight' = (plInFlight \ {Len(plIssued)}) \cup {Len(plIssued) + 1}
                  /\ plPc' = Suspends("stepAwait", "tableDelay")
                  /\ UNCHANGED <<plI, plCurrentIndex, plDoc>>
    /\ UNCHANGED <<plRemoteChildren, plListing, plNonTable, plTables, plTableRows>>
    /\ UNCHANGED notPlVars

\* createTableBlockStepByStep: the empty table is answered; its rows and cells
\* are added by addTableRowsAndCells (one creation after the other, here one)
createTableBlockStepByStep ==
    /\ plPc = "stepAwait"
    /\ \E ok \in BOOLEAN :
          /\ PlOutcome(ok)
          /\ IF ok /\ plTableRows
             THEN /\ plDoc' = InsertAt(plDoc, plCurrentIndex, <<Child("table", plI)>>)
                  /\ plIssued' = Append(plIssued,
                         Mutation("createDocumentBlocks", "addTableRowsAndCells", 0, 0, 1))
                  /\ plInFlight' = (plInFlight \ {Len(plIssued)}) \cup {Len(plIssued) + 1}
                  /\ plPc' = Suspends("rowsAwait", "tableDelay")
                  /\ UNCHANGED <<plI, plCurrentIndex>>
             ELSE IF ok
             THEN /\ PlAnswered
                  /\ plDoc' = InsertAt(plDoc, plCurrentIndex, <<Child("table", plI)>>)
                  /\ PlTableCreated(TRUE)
                  /\ UNCHANGED plIssued
             ELSE PlFallbackIssued
    /\ UNCHANGED <<plRemoteChildren, plListing, plNonTable, plTables, plTableRows>>
    /\ UNCHANGED notPlVars

\* addTableRowsAndCells: the row is answered; a failure is caught by
\* processTablesInDocument like a failure of the table
addTableRowsAndCells ==
    /\ plPc = "rowsAwait"
    /\ \E ok \in BOOLEAN :
          /\ PlOutcome(ok)
          /\ IF ok
             THEN /\ PlAnswered
                  /\ PlTableCreated(TRUE)
                  /\ UNCHANGED <<plIssued, plDoc>>
             ELSE PlFallbackIssued
    /\ UNCHANGED <<plRemoteChildren, plListing, plNonTable, plTables, plTableRows>>
    /\ UNCHANGED notPlVars

\* the text block that replaces a failed table is answered; its failure is
\* logged and the loop goes on, without a delay
PlFallbackAnswers ==
    /\ plPc = "fallbackAwait"
    /\ PlAnswered
    /\ \E ok \in BOOLEAN :
          /\ PlOutcome(ok)
          /\ IF ok
             THEN /\ plDoc' = InsertAt(plDoc, plCurrentIndex, <<Child("text", plI)>>)
                  /\ PlTableCreated(FALSE)
             ELSE /\ plPc' = "tableLoop"
                  /\ plI' = plI + 1
                  /\ UNCHANGED <<plCurrentIndex, plDoc>>
    /\ UNCHANGED <<plRemoteChildren, plListing, plNonTable, plTables, plTableRows, plIssued>>
    /\ UNCHANGED notPlVars

\* the delay of 1500 ms between two tables is over
PlTableDelayEnds ==
    /\ plPc = "tableDelay"
    /\ plI' = plI + 1
    /\ plPc' = "tableLoop"
    /\ UNCHANGED <<plRemoteChildren, plListing, plNonTable, plTables, plTableRows, plCurrentIndex,
                   plIssued, plInFlight, plFailed, plDoc>>
    /\ UNCHANGED notPlVars

PlNext ==
    \/ deleteAllChildBlocks
    \/ PlDeleteAnswers
    \/ PlBatchLoop
    \/ PlBatchAnswers
    \/ PlBatchDelayEnds
    \/ processTablesInDocument
    \/ createSingleTableBlock
    \/ createTableBlockStepByStep
    \/ addTableRowsAndCells
    \/ PlFallbackAnswers
    \/ PlTableDelayEnds

SpecPipeline == PlInit /\ [][PlNext]_vars

-----------------------------------------------------------------------------
(* Properties of the creations and deletions of one smart update *)

\* the batches of non-table blocks among the calls issued, in issue order
BatchCalls ==
    SelectSeq(plIssued, LAMBDA c : c.by = "createNonTableBlocksInBatches")

\* C13: at most one create or delete call of the update is in flight at any
\* time, and the batches of non-table blocks are issued in the order of the
\* blocks: the first starts at block 0 and each next one where the one before
\* ended, at the insert index the one before left.
C13_MutationsStrictlyOrdered ==
    /\ Cardinality(plInFlight) <= 1
    /\ \A k \in 1..Len(BatchCalls) :
          /\ BatchCalls[k].from = (IF k = 1 THEN 0 ELSE BatchCalls[k - 1].to)
          /\ BatchCalls[k].index = BatchCalls[k].from
          /\ BatchCalls[k].from < BatchCalls[k].to

\* three batches were issued after a delete, a table was created step by step,
\* and a call is in flight
C13_Witness ==
    /\ Len(BatchCalls) = 3
    /\ \E k \in 1..Len(plIssued) : plIssued[k].op = "batchDeleteDocumentBlocks"
    /\ \E k \in 1..Len(plIssued) : plIssued[k].by = "createTableBlockStepByStep"
    /\ Cardinality(plInFlight) = 1

\* C19: every creation call for non-table blocks carries at least one and at
\* most 50 blocks, and a finished update has submitted every block.
C19_BatchesOfAtMostFifty ==
    /\ \A k \in 1..Len(BatchCalls) :
          BatchCalls[k].to - BatchCalls[k].from \in 1..BATCH_SIZE
    /\ (plPc = "done" /\ plNonTable > 0) =>
          BatchCalls[Len(BatchCalls)].to = plNonTable

\* an update of 101 blocks has finished: two batches of 50 and one of 1
C19_Witness ==
    /\ plPc = "done"
    /\ plNonTable = 2 * BATCH_SIZE + 1
    /\ [k \in 1..Len(BatchCalls) |-> BatchCalls[k].to - BatchCalls[k].from]
          = <<BATCH_SIZE, BATCH_SIZE, 1>>

\* the direct creations of the tables among the calls issued
DirectCalls == {k \in 1..Len(plIssued) : plIssued[k].by = "createSingleTableBlock"}

\* the failed call of the stepwise attempt that followed the direct attempt k:
\* the empty table or, once the empty table exists, its rows; 0 if there is none
StepwiseFailedAt(k) ==
    IF k + 1 \in plFailed /\ plIssued[k + 1].by = "createTableBlockStepByStep"
    THEN k + 1
    ELSE IF /\ k + 2 \in plFailed
            /\ plIssued[k + 2].by = "addTableRowsAndCells"
         THEN k + 2
         ELSE 0

\* the tables whose direct and stepwise attempts have both failed, by the
\* position of their direct attempt
FailedTwice == {k \in DirectCalls : k \in plFailed /\ StepwiseFailedAt(k) # 0}

\* the ranged deletes among the calls issued
DeleteCalls == {k \in 1..Len(plIssued) : plIssued[k].op = "batchDeleteDocumentBlocks"}

\* the blocks of the listing whose parent is the root block
DirectChildren == {i \in 1..Len(plListing) : plListing[i].parent_id = "root"}

\* C26: clearing issues at most one ranged delete, as the first call of the
\* update; the delete starts at index 0 and ends at the number of blocks of
\* the listing that are direct children of the root block, and it is issued
\* whenever there is such a child (with no child there is nothing to delete
\* and no call).
C26_OneRangedDeleteOverAllChildren ==
    /\ Cardinality(DeleteCalls) <= 1
    /\ \A k \in DeleteCalls :
          /\ k = 1
          /\ plIssued[k].from = 0
          /\ plIssued[k].to = Cardinality(DirectChildren)
          /\ plIssued[k].to = plRemoteChildren \/ plRemoteChildren = 0
    /\ plPc # "idle" => (DeleteCalls # {} <=> DirectChildren # {})

\* the listing holds the page block, two children and a block below the first
\* child; the delete over [0, 2) was answered and the update is done
C26_Witness ==
    /\ plPc = "done"
    /\ Len(plListing) = 4
    /\ plIssued[1] = Mutation("batchDeleteDocumentBlocks", "deleteAllChildBlocks", 0, 0, 2)
    /\ plRemoteChildren = 0

C22_TableFailureDoesNotAbort ==
    /\ plPc = "failed" =>
          /\ Len(plIssued) \in plFailed
          /\ plIssued[Len(plIssued)].by
                \in {"deleteAllChildBlocks", "createNonTableBlocksInBatches"}
    /\ plPc = "done" =>
          /\ Cardinality(DirectCalls) = plTables
          /\ \A k, m \in DirectCalls :
                k < m => plIssued[k].from < plIssued[m].from
          /\ \A k \in DirectCalls : plIssued[k].from \in 0..(plTables - 1)
    /\ plPc \notin {"done", "failed"} => ENABLED PlNext

\* the first of two tables failed in both attempts and so did its text block;
\* the second table was created and the update is done
C22_Witness ==
    /\ plPc = "done"
    /\ plTables = 2
    /\ plFailed = {1, 2, 3}
    /\ plDoc = <<Child("table", 1)>>


\* the children of the root block that table t has contributed
BlocksOfTable(t) ==
    {i \in 1..Len(plDoc) : plDoc[i].kind \in {"table", "text"} /\ plDoc[i].of = t}

\* the creation of the text block that stands for table t has failed
FallbackFailed(t) ==
    \E m \in plFailed :
        plIssued[m].by = "processTablesInDocument" /\ plIssued[m].from = t

\* processTablesInDocument is between two tables or has returned; plI tables
\* have been handled
BetweenTables == plPc \in {"tableLoop", "done"}

\* C38: between two tables and at the end of the table step, every table
\* handled so far has contributed one child of the root block, its table or
\* its text block (none if the creation of the text block failed as well),
\* and the index for the next table is the number of children created.
C38_OneRootBlockPerTable ==
    BetweenTables =>
        /\ \A t \in 0..(plI - 1) :
              Cardinality(BlocksOfTable(t)) = (IF FallbackFailed(t) THEN 0 ELSE 1)
        /\ plCurrentIndex = Len(plDoc)

\* the creation of the rows of a table has failed
RowsFailed == \E m \in plFailed : plIssued[m].by = "addTableRowsAndCells"

\* what holds of C38: one child per table and an index equal to the number
\* of children, as long as no creation of rows has failed after the empty
\* table was created
OneRootBlockPerTableUnlessRowsFail ==
    (BetweenTables /\ ~RowsFailed) =>
        /\ \A t \in 0..(plI - 1) :
              Cardinality(BlocksOfTable(t)) = (IF FallbackFailed(t) THEN 0 ELSE 1)
        /\ plCurrentIndex = Len(plDoc)

-----------------------------------------------------------------------------
(* Insertion planner *)

MaxDepth == 3
MaxSiblings == 2
MAX_TABLE_CELLS == 2000
MAX_TABLE_SIZE == 9

\* a block_type is a type name or a number of the conversion API
TypeName(name) == [isNumber |-> FALSE, num |-> 0, name |-> name]
TypeNumber(num) == [isNumber |-> TRUE, num |-> num, name |-> ""]

\* block.block_type === 'name'
IsTypeName(blockType, name) == ~blockType.isNumber /\ blockType.name = name

\* the truth value of a block type in a condition: undefined, '' and 0 are false
Truthy(blockType) ==
    IF blockType.isNumber THEN blockType.num # 0 ELSE blockType.name # ""

NoParentType == TypeName("")

UNSUPPORTED_BLOCK_TYPES ==
    {"ai_template", "source_synced", "reference_synced", "mindnote",
     "undefined", "page", "view", "diagram"}

\* a block type that is never checked against the denylist
isSupportedAlways(blockType) == TRUE

isSupportedBlockType(blockType) ==
    ~(~blockType.isNumber /\ blockType.name \in UNSUPPORTED_BLOCK_TYPES)

\* the table of parent and child types the class declares and nothing reads
PARENT_CHILD_RESTRICTIONS(parentName) ==
    LET basic == {"text", "heading1", "heading2", "heading3", "heading4", "heading5",
                  "heading6", "bullet", "ordered", "code", "equation", "todo"}
    IN  CASE parentName = "callout" -> basic \cup {"quote"}
          [] parentName = "grid_column" -> basic \cup {"quote", "image", "table", "callout"}
          [] parentName = "quote" -> basic
          [] parentName = "code" -> {}
          [] parentName = "table" -> {"table_row"}
          [] parentName = "table_row" -> {"table_cell"}
          [] parentName = "table_cell" -> {"text", "equation", "mention_doc", "mention_user"}

\* stringMapping of mapBlockTypeToMarkdown
stringMapping(name) ==
    IF name \in {"text", "heading1", "heading2", "heading3", "bullet", "ordered",
                 "quote", "code", "image", "table", "table_row", "table_cell"}
    THEN name
    ELSE "text"

\* mapBlockTypeToMarkdown on a number or on a type name
MarkdownTypeOf(blockType) ==
    IF blockType.isNumber
    THEN mapBlockTypeToMarkdown(blockType.num)
    ELSE stringMapping(blockType.name)

\* isValidParentChildRelation on numbers and type names
RelationIsValid(parentType, childType) ==
    MarkdownTypeOf(childType) \in ValidRelations(MarkdownTypeOf(parentType))

\* Math.floor(size * Math.sqrt(2000 / (size * other))), over the reals
ShrunkSize(size, other) ==
    CHOOSE k \in 0..size :
        /\ k * k * other <= MAX_TABLE_CELLS * size
        /\ (k + 1) * (k + 1) * other > MAX_TABLE_CELLS * size

\* a size that is missing, zero or negative becomes Math.min(Math.max(1, size || 1), 9)
DefaultedSize(size) ==
    IF size = 0 \/ size <= 0
    THEN Min(Max(1, IF size = 0 THEN 1 ELSE size), MAX_TABLE_SIZE)
    ELSE size

\* the table part of processBlock: property of block.table, 0 for a missing size
ValidateTable(property) ==
    LET row == DefaultedSize(property.row_size)
        col == DefaultedSize(property.column_size)
    IN  IF row * col > MAX_TABLE_CELLS
        THEN [row_size |-> Max(1, ShrunkSize(row, col)),
              column_size |-> Max(1, ShrunkSize(col, row))]
        ELSE [row_size |-> row, column_size |-> col]

\* processBlock: the empty sequence for null, else the processed block;
\* table is << >> for a block without one, children << >> for none
RECURSIVE processBlock(_, _)
processBlock(block, parentType) ==
    IF ~isSupportedBlockType(block.block_type)
    THEN <<>>
    ELSE IF Truthy(parentType) /\ ~RelationIsValid(parentType, block.block_type)
    THEN <<>>
    ELSE LET table == IF IsTypeName(block.block_type, "table") /\ block.table # <<>>
                      THEN <<ValidateTable(block.table[1])>>
                      ELSE block.table
             processed(k) == processBlock(block.children[k], block.block_type)
             kept == SelectSeq([k \in 1..Len(block.children) |-> processed(k)],
                               LAMBDA child : child # <<>>)
         IN  <<[block_type |-> block.block_type,
                table |-> table,
                children |-> [k \in 1..Len(kept) |-> kept[k][1]]]>>

\* the block types of the inputs: type names and numbers, nestable or not, on
\* the denylist or not
PlannerTypes ==
    {TypeName("table"), TypeName("table_row"), TypeName("table_cell"),
     TypeName("text"), TypeName("bullet"), TypeName("quote"),
     TypeName("page"), TypeName("mindnote"),
     TypeNumber(31), TypeNumber(2), TypeNumber(14)}

\* row and column sizes: missing or zero, negative, within 9, above 9, and
\* large enough for more than 2000 cells
TableSizes == {0 - 1, 0, 1, 9, 10, 44, 45, 50, 2100}

Leaf(blockType) == [block_type |-> blockType, table |-> <<>>, children |-> <<>>]

\* a block with the given children
Parent(blockType, children) ==
    [block_type |-> blockType, table |-> <<>>, children |-> children]

\* chains of nested blocks, one child each, of the given depth at most
RECURSIVE Chains(_)
Chains(depth) ==
    IF depth = 1
    THEN {Leaf(t) : t \in PlannerTypes}
    ELSE Chains(depth - 1) \cup
         {Parent(t, <<c>>) : t \in PlannerTypes, c \in Chains(depth - 1)}

\* blocks with several children that have no children
Families ==
    {Parent(t, cs) : t \in PlannerTypes,
                     cs \in SeqsUpTo({Leaf(c) : c \in PlannerTypes}, MaxSiblings)}

\* tables with a property, as a type name and as the number 31
Tables ==
    {[block_type |-> t, table |-> <<[row_size |-> r, column_size |-> c]>>,
      children |-> <<>>] :
        t \in {TypeName("table"), TypeNumber(31)}, r \in TableSizes, c \in TableSizes}

PnInit ==
    /\ pnInput \in {<<b>> : b \in Chains(MaxDepth) \cup Families \cup Tables}
                   \cup {<<Leaf(a), Leaf(b)>> : a \in PlannerTypes, b \in PlannerTypes}
    /\ pnOutput = <<>>
    /\ pnPc = "idle"
    /\ RecOff /\ ValOff /\ SuOff /\ CoOff /\ DqOff /\ RtOff /\ LpOff /\ ScOff /\ PlOff /\ SdOff /\ WlOff /\ PpOff /\ ImOff

\* blocks.map(block => processBlock(block, parentBlockType)).filter(...), the
\* parent type being undefined in reimportContent
processBlocksForInsertion ==
    /\ pnPc = "idle"
    /\ LET results == [i \in 1..Len(pnInput) |-> processBlock(pnInput[i], NoParentType)]
           kept == SelectSeq(results, LAMBDA r : r # <<>>)
       IN  pnOutput' = [i \in 1..Len(kept) |-> kept[i][1]]
    /\ pnPc' = "done"
    /\ UNCHANGED pnInput
    /\ UNCHANGED notPnVars

PnNext == processBlocksForInsertion

SpecPlanner == PnInit /\ [][PnNext]_vars

-----------------------------------------------------------------------------
(* Properties of the insertion planner *)

\* the name of a block type, a number being named by mapBlockTypeToMarkdown
NameOf(blockType) ==
    IF blockType.isNumber THEN mapBlockTypeToMarkdown(blockType.num) ELSE blockType.name

TypesOf(bs) == [k \in 1..Len(bs) |-> bs[k].block_type]

\* the compatibility table permits the child under the parent
Permitted(parentType, child) ==
    /\ isSupportedBlockType(child.block_type)
    /\ NameOf(child.block_type) \in PARENT_CHILD_RESTRICTIONS(NameOf(parentType))

\* C14: under a table, a table row or a table cell, the planner keeps exactly
\* the children the compatibility table permits, in their order, and the
\* children it drops appear nowhere else in its output.
C14_NestedBlocksFollowCompatibilityTable ==
    (/\ pnPc = "done"
     /\ Len(pnInput) = 1
     /\ NameOf(pnInput[1].block_type) \in {"table", "table_row", "table_cell"}) =>
        /\ Len(pnOutput) = 1
        /\ TypesOf(pnOutput[1].children) =
              TypesOf(SelectSeq(pnInput[1].children,
                                LAMBDA child : Permitted(pnInput[1].block_type, child)))

\* what the planner does keep under a parent: the children that
\* isValidParentChildRelation accepts, and no dropped child is moved elsewhere
NestedBlocksFollowValidRelations ==
    (pnPc = "done" /\ Len(pnInput) = 1 /\ isSupportedBlockType(pnInput[1].block_type)) =>
        /\ Len(pnOutput) = 1
        /\ TypesOf(pnOutput[1].children) =
              TypesOf(SelectSeq(pnInput[1].children,
                         LAMBDA child :
                             /\ isSupportedBlockType(child.block_type)
                             /\ RelationIsValid(pnInput[1].block_type, child.block_type)))

\* the single table of the input and what the planner returned for it
IsTableRun ==
    /\ pnPc = "done"
    /\ Len(pnInput) = 1
    /\ NameOf(pnInput[1].block_type) = "table"
    /\ pnInput[1].table # <<>>

TableBefore == pnInput[1].table[1]
TableAfter == pnOutput[1].table[1]

\* one factor takes both sizes to the new sizes, rounded down
SameFactor(row, col, newRow, newCol) ==
    /\ newRow * col < (newCol + 1) * row
    /\ newCol * row < (newRow + 1) * col

\* C17: a table of more than 2000 cells leaves the planner with at most 2000
\* cells, both sizes shrunk by one factor up to rounding.
C17_TableCellBound ==
    (IsTableRun /\ TableBefore.row_size * TableBefore.column_size > MAX_TABLE_CELLS) =>
        /\ Len(pnOutput) = 1
        /\ TableAfter.row_size * TableAfter.column_size <= MAX_TABLE_CELLS
        /\ SameFactor(TableBefore.row_size, TableBefore.column_size,
                      TableAfter.row_size, TableAfter.column_size)

\* what the planner does establish: the bound and the factor for a table
\* typed 'table' of which no size is rounded down to zero
CellBoundUnlessClamped ==
    (/\ IsTableRun
     /\ IsTypeName(pnInput[1].block_type, "table")
     /\ TableBefore.row_size * TableBefore.column_size > MAX_TABLE_CELLS
     /\ ShrunkSize(TableBefore.row_size, TableBefore.column_size) >= 1
     /\ ShrunkSize(TableBefore.column_size, TableBefore.row_size) >= 1) =>
        /\ TableAfter.row_size * TableAfter.column_size <= MAX_TABLE_CELLS
        /\ SameFactor(TableBefore.row_size, TableBefore.column_size,
                      TableAfter.row_size, TableAfter.column_size)

\* C18: a table leaves the planner with a row_size and a column_size between
\* 1 and 9.
C18_TableSizesWithinNine ==
    IsTableRun =>
        /\ Len(pnOutput) = 1
        /\ TableAfter.row_size \in 1..MAX_TABLE_SIZE
        /\ TableAfter.column_size \in 1..MAX_TABLE_SIZE

\* what the planner does establish for a table typed 'table': sizes of 1 or more
TableSizesPositive ==
    (IsTableRun /\ IsTypeName(pnInput[1].block_type, "table")) =>
        /\ TableAfter.row_size >= 1
        /\ TableAfter.column_size >= 1

\* the block types of a block and of all the blocks nested in it
RECURSIVE TypesIn(_)
TypesIn(block) ==
    {block.block_type} \cup UNION {TypesIn(block.children[k]) : k \in 1..Len(block.children)}

\* the number of blocks in a list and in all the blocks nested in them
RECURSIVE SizeOfAll(_)
SizeOfAll(bs) ==
    IF bs = <<>> THEN 0
    ELSE 1 + SizeOfAll(Head(bs).children) + SizeOfAll(Tail(bs))

SizeOf(block) == SizeOfAll(<<block>>)

Denylisted(blockType) ==
    ~blockType.isNumber /\ blockType.name \in UNSUPPORTED_BLOCK_TYPES

\* the top-level blocks of the input that are not on the denylist
SupportedInput == SelectSeq(pnInput, LAMBDA block : ~Denylisted(block.block_type))

\* C20: no block of a denylisted type is in the output of the planner at any
\* depth, and a denylisted block is dropped with everything nested in it:
\* the output has one block for each top-level block that is not denylisted,
\* of the same type and with no more blocks in it.
C20_DenylistedDroppedWithSubtree ==
    pnPc = "done" =>
        /\ \A i \in 1..Len(pnOutput) :
              \A blockType \in TypesIn(pnOutput[i]) : ~Denylisted(blockType)
        /\ TypesOf(pnOutput) = TypesOf(SupportedInput)
        /\ \A i \in 1..Len(pnOutput) : SizeOf(pnOutput[i]) <= SizeOf(SupportedInput[i])

\* a denylisted block nested two levels deep was dropped from a block that
\* was kept with its child
C20_Witness ==
    /\ pnPc = "done"
    /\ Len(pnInput) = 1
    /\ Len(pnOutput) = 1
    /\ pnOutput[1].children # <<>>
    /\ SizeOf(pnInput[1]) = MaxDepth
    /\ SizeOf(pnOutput[1]) = MaxDepth - 1
    /\ \E blockType \in TypesIn(pnInput[1]) : Denylisted(blockType)

\* a denylisted block was dropped at the top level with the blocks nested in it
DenylistedParentDropped ==
    /\ pnPc = "done"
    /\ Len(pnInput) = 1
    /\ Denylisted(pnInput[1].block_type)
    /\ SizeOf(pnInput[1]) = MaxDepth
    /\ pnOutput = <<>>

-----------------------------------------------------------------------------
(* The choice between smart update and plain creation *)

MaxContentLines == 3
MaxHistory == 2

sPipe == <<"|">>
sFence == <<"bq", "bq", "bq">>

\* the lines a note is made of
ContentLines ==
    { sAb,                                      \* plain text
      <<"a", "|", "b">>,                        \* one separator, two cells
      <<"|", "|">>,                             \* three empty cells, two characters
      <<" ", "|", "a", "|", " ">>,              \* a row of one column, indented
      <<"a", "|", "b", "|", "a">>,              \* a row without outer separators
      sFence }

\* the records of the upload history
HistoryRecords ==
    [title : {"Notes", "Other"}, isReferencedDocument : BOOLEAN]

\* s.split(sep) for a separator of one character
RECURSIVE Split(_, _)
Split(s, sep) ==
    LET hits == {i \in 1..Len(s) : s[i] = sep}
        first == CHOOSE i \in hits : \A j \in hits : i <= j
    IN  IF hits = {}
        THEN <<s>>
        ELSE <<SubSeq(s, 1, first - 1)>> \o Split(DropFirst(s, first), sep)

\* a detection that finds no table in any content
hasTableNever(lines) == FALSE

\* hasTableInMarkdown, on the lines of the content
hasTableInMarkdown(lines) ==
    \E i \in 1..Len(lines) :
        LET line == Trim(lines[i])
            beforeLines == SubSeq(lines, 1, i - 1)
            codeBlockCount ==
                Len(SelectSeq(beforeLines, LAMBDA l : StartsWith(Trim(l), sFence)))
            cells == [k \in 1..Len(Split(line, "|")) |-> Trim(Split(line, "|")[k])]
        IN  /\ Includes(line, sPipe)
            /\ Len(line) > 2
            /\ codeBlockCount % 2 = 0
            /\ Len(cells) >= 3

\* uploadHistory.find of findExistingDocument: the first record of the title
\* that is no referenced document, "null" if there is none
ExistingDocument(title, uploadHistory) ==
    LET hits == {i \in 1..Len(uploadHistory) :
                    /\ uploadHistory[i].title = title
                    /\ ~uploadHistory[i].isReferencedDocument}
    IN  IF hits = {}
        THEN "null"
        ELSE "record"

\* shouldUseSmartUpdate; a content without lines is the absent or empty one
shouldUseSmartUpdate(title, uploadHistory, enableSmartUpdate, lines) ==
    IF ~enableSmartUpdate
    THEN FALSE
    ELSE IF lines # <<>> /\ hasTableInMarkdown(lines)
         THEN FALSE
         ELSE ExistingDocument(title, uploadHistory) # "null"

SdInit ==
    /\ sdArgs \in [title : {"Notes"},
                   uploadHistory : SeqsUpTo(HistoryRecords, MaxHistory),
                   enableSmartUpdate : BOOLEAN,
                   lines : SeqsUpTo(ContentLines, MaxContentLines)]
    /\ sdResult = [returned |-> FALSE, value |-> FALSE]
    /\ RecOff /\ ValOff /\ SuOff /\ CoOff /\ DqOff /\ RtOff /\ LpOff /\ ScOff /\ PlOff /\ PnOff /\ WlOff /\ PpOff /\ ImOff

\* the caller asks whether the note is to be uploaded by smart update
SdDecide ==
    /\ sdArgs # <<>>
    /\ ~sdResult.returned
    /\ sdResult' = [returned |-> TRUE,
                    value |-> shouldUseSmartUpdate(sdArgs.title, sdArgs.uploadHistory,
                                  sdArgs.enableSmartUpdate, sdArgs.lines)]
    /\ UNCHANGED sdArgs
    /\ UNCHANGED notSdVars

SdNext == SdDecide

SpecDecide == SdInit /\ [][SdNext]_vars

-----------------------------------------------------------------------------
(* Properties of the choice between smart update and plain creation *)

\* the number of separators of a line
Separators(line) == Cardinality({i \in 1..Len(line) : line[i] = "|"})

\* a line of more than two characters, spaces around it aside, that the
\* separators cut into three cells or more, outside of a fenced code block
TableLikeLine(lines, i) ==
    /\ Len(Trim(lines[i])) > 2
    /\ Separators(lines[i]) >= 2
    /\ Cardinality({j \in 1..(i - 1) : StartsWith(Trim(lines[j]), sFence)}) % 2 = 0

\* the history holds a record of the title that is no referenced document
InHistory(title, uploadHistory) ==
    \E i \in 1..Len(uploadHistory) :
        /\ uploadHistory[i].title = title
        /\ ~uploadHistory[i].isReferencedDocument

\* C27: with smart update enabled, shouldUseSmartUpdate answers true when the
\* history holds a record of the title that is no referenced document and no
\* line of the content holds a separator, and answers false when the content
\* holds a table-like line, whatever the history holds.
C27_SmartUpdateUnlessTable ==
    (sdResult.returned /\ sdArgs.enableSmartUpdate) =>
        /\ (/\ InHistory(sdArgs.title, sdArgs.uploadHistory)
            /\ \A i \in 1..Len(sdArgs.lines) : Separators(sdArgs.lines[i]) = 0)
           => sdResult.value
        /\ (\E i \in 1..Len(sdArgs.lines) : TableLikeLine(sdArgs.lines, i))
           => ~sdResult.value

\* the title is in the history, after a record of it that is a referenced
\* document, and a row follows a fenced block that is closed: the answer is no
C27_Witness ==
    /\ sdResult.returned
    /\ ~sdResult.value
    /\ sdArgs.enableSmartUpdate
    /\ sdArgs.uploadHistory = <<[title |-> "Notes", isReferencedDocument |-> TRUE],
                                [title |-> "Notes", isReferencedDocument |-> FALSE]>>
    /\ sdArgs.lines = <<sFence, sFence, <<" ", "|", "a", "|", " ">>>>

\* the same history and a content of plain text: the answer is yes
SmartUpdateChosen ==
    /\ sdResult.returned
    /\ sdResult.value
    /\ sdArgs.lines = <<sAb, sAb>>

-----------------------------------------------------------------------------
(* Replacement of the double links of a note *)

MaxPieces == 3

sOpen == <<"[", "[">>
sClose == <<"]", "]">>

\* what a note is made of: a link to note a, the same with a display text, a
\* link to note b, and plain text
Pieces ==
    { sOpen \o <<"a">> \o sClose,
      sOpen \o <<"a", "|", "x">> \o sClose,
      sOpen \o <<"b">> \o sClose,
      <<"x", " ">> }

RECURSIVE Concat(_)
Concat(pieces) == IF pieces = <<>> THEN <<>> ELSE Head(pieces) \o Concat(Tail(pieces))

\* number of leading characters of s that are not in the set
RECURSIVE LeadingNotIn(_, _)
LeadingNotIn(s, chars) ==
    IF s # <<>> /\ s[1] \notin chars THEN 1 + LeadingNotIn(Tail(s), chars) ELSE 0

\* the length of the match of /\[\[([^\]|]+)(?:\|([^\]]+))?\]\]/ at the start
\* of s, 0 if there is none
WikiLinkLength(s) ==
    LET n == LeadingNotIn(DropFirst(s, 2), {"]", "|"})
        afterTitle == DropFirst(s, 2 + n)
        m == LeadingNotIn(DropFirst(afterTitle, 1), {"]"})
    IN  IF ~StartsWith(s, sOpen) \/ n = 0
        THEN 0
        ELSE IF StartsWith(afterTitle, sClose)
        THEN 2 + n + 2
        ELSE IF /\ StartsWith(afterTitle, <<"|">>)
                /\ m > 0
                /\ StartsWith(DropFirst(afterTitle, 1 + m), sClose)
        THEN 2 + n + 1 + m + 2
        ELSE 0

\* extractWikiLinks: the matches of the expression from offset from on, with
\* their text, their trimmed title and their offset
RECURSIVE WikiLinksFrom(_, _)
WikiLinksFrom(content, from) ==
    IF from >= Len(content)
    THEN <<>>
    ELSE LET rest == DropFirst(content, from)
             length == WikiLinkLength(rest)
         IN  IF length = 0
             THEN WikiLinksFrom(content, from + 1)
             ELSE <<[originalText |-> SubSeq(rest, 1, length),
                     title |-> Trim(SubSeq(rest, 3,
                                   2 + LeadingNotIn(DropFirst(rest, 2), {"]", "|"}))),
                     position |-> from,
                     feishuUrl |-> <<>>]>>
                  \o WikiLinksFrom(content, from + length)

extractWikiLinks(content) == WikiLinksFrom(content, 0)

\* the url of the uploaded note of a title
UrlOf(title) == <<"u", "/">> \o title

\* the offset of the first occurrence of p in s, -1 if there is none
IndexOf(s, p) ==
    LET hits == {i \in 0..(Len(s) - Len(p)) : SubSeq(s, i + 1, i + Len(p)) = p}
    IN  IF hits = {} THEN 0 - 1 ELSE CHOOSE i \in hits : \A j \in hits : i <= j

\* the text of s from offset at on, length characters long, replaced by r
Splice(s, at, length, r) ==
    SubSeq(s, 1, at) \o r \o DropFirst(s, at + length)

\* the replacement made at the offset the link was found at
ReplaceAtPosition(s, link, r) == Splice(s, link.position, Len(link.originalText), r)

\* processedContent.replace(wikiLink.originalText, markdownLink): the first
\* occurrence of the text, wherever it is
ReplaceFirst(s, link, r) ==
    IF IndexOf(s, link.originalText) < 0
    THEN s
    ELSE Splice(s, IndexOf(s, link.originalText), Len(link.originalText), r)

\* [...wikiLinks].sort((a, b) => b.position - a.position)
RECURSIVE SortedByPositionDescending(_)
SortedByPositionDescending(links) ==
    IF links = <<>>
    THEN <<>>
    ELSE LET last == CHOOSE i \in 1..Len(links) :
                         \A j \in 1..Len(links) : links[j].position <= links[i].position
         IN  <<links[last]>>
             \o SortedByPositionDescending(
                    SubSeq(links, 1, last - 1) \o SubSeq(links, last + 1, Len(links)))

\* the Markdown link that replaces a double link
MarkdownLink(link) ==
    <<"[">> \o link.title \o <<"]", "(">> \o link.feishuUrl \o <<")">>

\* the loop of replaceWikiLinksWithFeishuLinks over the sorted links
RECURSIVE ReplaceLinks(_, _)
ReplaceLinks(processed, sortedWikiLinks) ==
    IF sortedWikiLinks = <<>>
    THEN processed
    ELSE ReplaceLinks(
             IF Head(sortedWikiLinks).feishuUrl # <<>>
             THEN ReplaceFirst(processed, Head(sortedWikiLinks),
                               MarkdownLink(Head(sortedWikiLinks)))
             ELSE processed,
             Tail(sortedWikiLinks))

replaceWikiLinksWithFeishuLinks(content, links) ==
    ReplaceLinks(content, SortedByPositionDescending(links))

WlInit ==
    /\ wlContent \in {Concat(p) : p \in SeqsUpTo(Pieces, MaxPieces)}
    /\ wikiLinks = <<>>
    /\ wlI = 0
    /\ wlUploaded = {}
    /\ processedContent = <<>>
    /\ wlPc = "idle"
    /\ RecOff /\ ValOff /\ SuOff /\ CoOff /\ DqOff /\ RtOff /\ LpOff /\ ScOff /\ PlOff /\ PnOff /\ SdOff /\ PpOff /\ ImOff

\* processWikiLinks up to the loop of uploadReferencedDocuments; a note
\* without links is returned as it is
WlExtract ==
    /\ wlPc = "idle"
    /\ wikiLinks' = extractWikiLinks(wlContent)
    /\ IF extractWikiLinks(wlContent) = <<>>
       THEN /\ processedContent' = wlContent
            /\ wlPc' = "done"
            /\ UNCHANGED wlI
       ELSE /\ wlI' = 1
            /\ wlPc' = "upload"
            /\ UNCHANGED processedContent
    /\ UNCHANGED <<wlContent, wlUploaded>>
    /\ UNCHANGED notWlVars

\* one iteration of uploadReferencedDocuments: the note of the link is taken
\* from the cache or uploaded, and the link gets its url unless the upload
\* failed
WlUpload ==
    /\ wlPc = "upload"
    /\ wlI <= Len(wikiLinks)
    /\ \E ok \in BOOLEAN :
          LET title == wikiLinks[wlI].title
              result == title \in wlUploaded \/ ok
          IN  /\ wlUploaded' = IF result THEN wlUploaded \cup {title} ELSE wlUploaded
              /\ wikiLinks' = IF result
                              THEN [wikiLinks EXCEPT ![wlI].feishuUrl = UrlOf(title)]
                              ELSE wikiLinks
    /\ wlI' = wlI + 1
    /\ UNCHANGED <<wlContent, processedContent, wlPc>>
    /\ UNCHANGED notWlVars

\* the end of processWikiLinks: the links are replaced in the content
WlReplace ==
    /\ wlPc = "upload"
    /\ wlI > Len(wikiLinks)
    /\ processedContent' = replaceWikiLinksWithFeishuLinks(wlContent, wikiLinks)
    /\ wlPc' = "done"
    /\ UNCHANGED <<wlContent, wikiLinks, wlI, wlUploaded>>
    /\ UNCHANGED notWlVars

WlNext == WlExtract \/ WlUpload \/ WlReplace

SpecReplaceLinks == WlInit /\ [][WlNext]_vars

-----------------------------------------------------------------------------
(* Properties of the replacement of the double links *)

\* the content with every resolved link replaced at the offset it was found
\* at, the last link first
RECURSIVE RewrittenAtOccurrences(_, _)
RewrittenAtOccurrences(content, links) ==
    IF links = <<>>
    THEN content
    ELSE LET last == links[Len(links)]
         IN  RewrittenAtOccurrences(
                 IF last.feishuUrl # <<>>
                 THEN ReplaceAtPosition(content, last, MarkdownLink(last))
                 ELSE content,
                 SubSeq(links, 1, Len(links) - 1))

\* C30: the content processWikiLinks returns is the note with every resolved
\* link replaced by its Markdown link at the place of that link, and every
\* other character as it was.
C30_LinksRewrittenAtTheirOccurrence ==
    wlPc = "done" => processedContent = RewrittenAtOccurrences(wlContent, wikiLinks)

\* two links have the same text when they are equally resolved
SameTextSameResolution ==
    \A i, j \in 1..Len(wikiLinks) :
        wikiLinks[i].originalText = wikiLinks[j].originalText =>
            wikiLinks[i].feishuUrl = wikiLinks[j].feishuUrl

\* what holds of C30: the links are replaced at their places when the links
\* of the same text are all resolved or all unresolved
RewrittenWhenResolvedAlike ==
    (wlPc = "done" /\ SameTextSameResolution) =>
        processedContent = RewrittenAtOccurrences(wlContent, wikiLinks)

\* the links are taken in the order of their offsets, and every one is at its
\* offset in the note
LinksAtTheirOffsets ==
    \A i \in 1..Len(wikiLinks) :
        /\ SubSeq(wlContent, wikiLinks[i].position + 1,
                  wikiLinks[i].position + Len(wikiLinks[i].originalText))
              = wikiLinks[i].originalText
        /\ i > 1 => wikiLinks[i - 1].position < wikiLinks[i].position

-----------------------------------------------------------------------------
(* Markdown preprocessor *)

MaxMdLines == 2

sDollar == <<"$">>

\* the lines a Markdown text is made of
MdLines ==
    { <<>>,                                             \* empty line
      sAb,                                              \* plain text
      <<"x", " ", "y">>,                                \* plain text
      <<"#", " ", "a">>,                                \* heading
      <<"-", " ", "a">>,                                \* bullet
      <<"1", ".", " ", "a">>,                           \* ordered item
      <<">", " ", "a">>,                                \* quote
      sFence,                                           \* code fence
      <<"|", "a", "|">>,                                \* table row
      <<"[", "a", "]", "(", "b", ")">>,                 \* link
      <<"-", "-", "-">>,                                \* rule
      <<"!", "[", "[", "a", "]", "]">>,                 \* embedded image
      <<"!", "[", "[", "a", " ", "b", "|", "x", "]", "]">>,   \* image with alt text
      <<"!", "[", "[", "a", "|", "$", "$", "]", "]">> ,  \* alt text of two dollar signs
      <<"!", "[", "[", "a", "|", "$", "&", "]", "]">> } \* alt text "$&"

\* lines.join(sep)
RECURSIVE Join(_, _)
Join(lines, sep) ==
    IF lines = <<>>
    THEN <<>>
    ELSE IF Len(lines) = 1
    THEN lines[1]
    ELSE lines[1] \o <<sep>> \o Join(Tail(lines), sep)

\* encodeURI, one character: letters, digits and ; , / ? : @ & = + $ - _ . ! ~
\* * ' ( ) # stay, every other character is escaped
EncodeChar(c) ==
    CASE c = " " -> <<"%", "2", "0">>
      [] c = "[" -> <<"%", "5", "B">>
      [] c = "\n" -> <<"%", "0", "A">>
      [] OTHER -> <<c>>

RECURSIVE EncodeURI(_)
EncodeURI(s) == IF s = <<>> THEN <<>> ELSE EncodeChar(s[1]) \o EncodeURI(Tail(s))

\* the matches of /!\[\[([^\]|]+)(?:\|([^\]]+))?\]\]/g from offset from on:
\* the whole match, the file name and the alt text
RECURSIVE ImageMatchesFrom(_, _)
ImageMatchesFrom(content, from) ==
    IF from >= Len(content)
    THEN <<>>
    ELSE LET rest == DropFirst(content, from)
             length == IF rest[1] = "!" THEN WikiLinkLength(Tail(rest)) ELSE 0
             n == LeadingNotIn(DropFirst(rest, 3), {"]", "|"})
             fileName == SubSeq(rest, 4, 3 + n)
             altText == IF length > n + 4
                        THEN SubSeq(rest, 5 + n, length - 1)
                        ELSE fileName
         IN  IF length = 0
             THEN ImageMatchesFrom(content, from + 1)
             ELSE <<[obsidianSyntax |-> SubSeq(rest, 1, length + 1),
                     fileName |-> fileName,
                     altText |-> altText]>>
                  \o ImageMatchesFrom(content, from + length + 1)

\* GetSubstitution of String.prototype.replace for a pattern that is a
\* string: $$ is a dollar sign, $& the matched text, $bq the text before the
\* match and $' the text after it
RECURSIVE GetSubstitution(_, _, _, _)
GetSubstitution(matched, str, position, replacement) ==
    IF replacement = <<>>
    THEN <<>>
    ELSE IF Len(replacement) >= 2 /\ replacement[1] = "$"
                                  /\ replacement[2] \in {"$", "&", "bq", "'"}
    THEN (CASE replacement[2] = "$" -> sDollar
            [] replacement[2] = "&" -> matched
            [] replacement[2] = "bq" -> SubSeq(str, 1, position)
            [] OTHER -> DropFirst(str, position + Len(matched)))
         \o GetSubstitution(matched, str, position, DropFirst(replacement, 2))
    ELSE <<replacement[1]>>
         \o GetSubstitution(matched, str, position, Tail(replacement))

\* convertedContent.replace(obsidianSyntax, standardSyntax)
ReplaceString(s, pattern, replacement) ==
    IF IndexOf(s, pattern) < 0
    THEN s
    ELSE Splice(s, IndexOf(s, pattern), Len(pattern),
                GetSubstitution(pattern, s, IndexOf(s, pattern), replacement))

\* the loop of convertObsidianImageSyntax over the matches in the given text
RECURSIVE ConvertImages(_, _)
ConvertImages(convertedContent, matches) ==
    IF matches = <<>>
    THEN convertedContent
    ELSE LET match == Head(matches)
             standardSyntax == <<"!", "[">> \o match.altText \o <<"]", "(">>
                               \o EncodeURI(match.fileName) \o <<")">>
         IN  ConvertImages(
                 ReplaceString(convertedContent, match.obsidianSyntax, standardSyntax),
                 Tail(matches))

convertObsidianImageSyntax(markdownContent) ==
    ConvertImages(markdownContent, ImageMatchesFrom(markdownContent, 0))

\* number of leading characters of s that are c
RECURSIVE LeadingOf(_, _)
LeadingOf(s, c) == IF s # <<>> /\ s[1] = c THEN 1 + LeadingOf(Tail(s), c) ELSE 0

\* /^!?\[.*\]\(.*\)/ on the text after the opening bracket
ClosesAsLink(s) ==
    \E i \in 1..Len(s) : \E j \in (i + 2)..Len(s) :
        s[i] = "]" /\ s[i + 1] = "(" /\ s[j] = ")"

\* isPlainTextLine: the trimmed line is not empty and matches none of the
\* special formats
isPlainTextLine(line) ==
    LET trimmed == Trim(line)
        hashes == LeadingOf(trimmed, "#")
        digits == LeadingDigits(trimmed)
    IN  /\ trimmed # <<>>
        /\ ~(hashes \in 1..6 /\ Len(trimmed) > hashes /\ IsSpace(trimmed[hashes + 1]))
        /\ ~(trimmed[1] \in {"-", "*", "+"} /\ Len(trimmed) >= 2 /\ IsSpace(trimmed[2]))
        /\ ~(digits >= 1 /\ Len(trimmed) >= digits + 2
                /\ trimmed[digits + 1] = "." /\ IsSpace(trimmed[digits + 2]))
        /\ trimmed[1] # ">"
        /\ ~StartsWith(trimmed, sFence)
        /\ ~(trimmed[1] = "|" /\ \E i \in 2..Len(trimmed) : trimmed[i] = "|")
        /\ ~(StartsWith(trimmed, <<"!", "[">>) /\ ClosesAsLink(DropFirst(trimmed, 2)))
        /\ ~(trimmed[1] = "[" /\ ClosesAsLink(Tail(trimmed)))
        /\ ~(Len(trimmed) >= 3 /\ LeadingOf(trimmed, "-") = Len(trimmed))

\* the loop of preprocessMarkdownForBlockSeparation from line i on
RECURSIVE ProcessedLines(_, _)
ProcessedLines(lines, i) ==
    IF i > Len(lines)
    THEN <<>>
    ELSE <<lines[i]>>
         \o (IF /\ lines[i] # <<>>
                /\ i < Len(lines)
                /\ lines[i + 1] # <<>>
                /\ isPlainTextLine(lines[i])
                /\ isPlainTextLine(lines[i + 1])
             THEN << <<>> >>
             ELSE <<>>)
         \o ProcessedLines(lines, i + 1)

preprocessMarkdownForBlockSeparation(markdown) ==
    Join(ProcessedLines(Split(markdown, "\n"), 1), "\n")

\* the preprocessing of reimportContent
Preprocess(markdownContent) ==
    preprocessMarkdownForBlockSeparation(convertObsidianImageSyntax(markdownContent))

PpInit ==
    /\ ppMarkdown \in {Join(lines, "\n") : lines \in SeqsUpTo(MdLines, MaxMdLines) \ {<<>>}}
    /\ ppOut = <<>>
    /\ RecOff /\ ValOff /\ SuOff /\ CoOff /\ DqOff /\ RtOff /\ LpOff /\ ScOff /\ PlOff /\ PnOff /\ SdOff /\ WlOff /\ ImOff

\* the preprocessor runs on the text, and then again on what it returned
PpRun ==
    /\ Len(ppOut) < 2
    /\ ppOut' = Append(ppOut, Preprocess(IF ppOut = <<>> THEN ppMarkdown ELSE ppOut[1]))
    /\ UNCHANGED ppMarkdown
    /\ UNCHANGED notPpVars

PpNext == PpRun

SpecPreprocess == PpInit /\ [][PpNext]_vars

-----------------------------------------------------------------------------
(* Properties of the Markdown preprocessor *)

\* C32: the preprocessor run on its own output returns that output.
C32_PreprocessorIdempotent ==
    Len(ppOut) = 2 => ppOut[2] = ppOut[1]

\* what holds of C32: a text without a dollar sign is preprocessed to the
\* same text once and twice
IdempotentWithoutDollar ==
    (Len(ppOut) = 2 /\ ~Includes(ppMarkdown, sDollar)) => ppOut[2] = ppOut[1]

\* the insertion of empty lines alone returns its own output unchanged
SeparationIdempotent ==
    Len(ppOut) >= 1 =>
        preprocessMarkdownForBlockSeparation(ppOut[1]) = ppOut[1]

\* no embedded image is left after one run, unless a replacement pattern put
\* one back
ImagesConverted ==
    (Len(ppOut) >= 1 /\ ~Includes(ppMarkdown, sDollar)) =>
        ImageMatchesFrom(ppOut[1], 0) = <<>>

-----------------------------------------------------------------------------
(* The wait for an import task *)

MaxImportRetries == 5

\* The ideographs of the error messages are written as syllables, one per
\* ideograph, with a digit where two ideographs share a syllable.
sImportTaskFailed == <<"dao", "ru", "ren", "wu", "shi1", "bai">>
sImportTaskSubmitted == <<"dao", "ru", "ren", "wu", "yi", "ti", "jiao">>

\* the messages of the errors the wait can meet
sTaskFailed == sImportTaskFailed \o <<":", " ", "x">>
sNoDocumentInfo ==
    <<"dao", "ru", "ren", "wu", "wan", "cheng", "dan", "wei4", "fan", "hui",
      "wen2", "dang", "xin", "xi">>
sTimedOut ==
    <<"dao", "ru", "ren", "wu", "chu", "li", "chao", "shi2", ",", "qing", "shao",
      "hou", "shou", "dong", "jian", "cha", "fei", "shu", "yun", "wen2", "dang">>
sEmptyResult == <<"dao", "ru", "ren", "wu", "jie", "guo", "wei2", "kong">>
sNetwork == <<"n", "e", "t">>
sApiCode == <<"[", "1", "]", " ", "x">>
sTokenFailed ==
    <<"huo", "qu", "fang", "wen4", "ling", "pai", "shi1", "bai", ":", " ", "x">>

\* the message of the errors queryImportTask throws from its try block and
\* from its catch block
QueryFailed(errorMessage) ==
    <<"cha", "xun">> \o sImportTaskFailed \o <<":", " ">> \o errorMessage

\* what a call of queryImportTask can come to
ImportAnswers ==
    {"done", "doneWithoutToken", "pending", "taskFailed",
     "network", "apiCode", "emptyResult", "tokenFailed"}

\* the message of the error an answer makes the try block of the wait throw
ErrorMessageOf(answer) ==
    CASE answer = "doneWithoutToken" -> sNoDocumentInfo
      [] answer = "taskFailed" -> sTaskFailed
      [] answer = "network" -> QueryFailed(sNetwork)
      [] answer = "apiCode" -> QueryFailed(QueryFailed(sApiCode))
      [] answer = "emptyResult" -> QueryFailed(sEmptyResult)
      [] answer = "tokenFailed" -> sTokenFailed
      [] OTHER -> sTimedOut

\* a count of retries that stands still
SameRetryCount(count) == count

\* retryCount++
NextRetryCount(count) == count + 1

\* the test of the catch block: the error is thrown on without a retry
ThrownAtOnce(errorMessage) ==
    \/ Includes(errorMessage, sImportTaskFailed)
    \/ Includes(errorMessage, sImportTaskSubmitted)

\* the catch block of the wait: [pc, retryCount] after it
ImCatch(errorMessage, count, maxRetries) ==
    IF ThrownAtOnce(errorMessage)
    THEN [pc |-> "thrown", retryCount |-> count]
    ELSE IF NextRetryCount(count) > maxRetries
    THEN [pc |-> "thrown", retryCount |-> NextRetryCount(count)]
    ELSE [pc |-> "wait", retryCount |-> NextRetryCount(count)]

\* one iteration of the loop after the answer of the query
ImAfter(answer, count, maxRetries) ==
    IF answer = "done"
    THEN [pc |-> "returned", retryCount |-> count]
    ELSE IF answer = "pending"
    THEN (IF NextRetryCount(count) > maxRetries
          THEN ImCatch(sTimedOut, NextRetryCount(count), maxRetries)
          ELSE [pc |-> "wait", retryCount |-> NextRetryCount(count)])
    ELSE ImCatch(ErrorMessageOf(answer), count, maxRetries)

ImInit ==
    /\ imMaxRetries \in 0..MaxImportRetries
    /\ imRetryCount = 0
    /\ imQueries = 0
    /\ imLast = "none"
    /\ imPc = "loop"
    /\ RecOff /\ ValOff /\ SuOff /\ CoOff /\ DqOff /\ RtOff /\ LpOff /\ ScOff /\ PlOff /\ PnOff /\ SdOff /\ WlOff /\ PpOff

\* the head of the loop of waitForImportTask: the status query is issued, or
\* the loop is left and the last error is thrown
waitForImportTask ==
    /\ imPc = "loop"
    /\ imQueries <= MaxImportRetries + 1
    /\ IF imRetryCount <= imMaxRetries
       THEN /\ imQueries' = imQueries + 1
            /\ imPc' = "query"
       ELSE /\ imPc' = "thrown"
            /\ UNCHANGED imQueries
    /\ UNCHANGED <<imMaxRetries, imRetryCount, imLast>>
    /\ UNCHANGED notImVars

\* queryImportTask returns or throws, and the rest of the iteration runs up
\* to the wait before the next query
queryImportTask ==
    /\ imPc = "query"
    /\ \E answer \in ImportAnswers :
          /\ imLast' = answer
          /\ imPc' = ImAfter(answer, imRetryCount, imMaxRetries).pc
          /\ imRetryCount' = ImAfter(answer, imRetryCount, imMaxRetries).retryCount
    /\ UNCHANGED <<imMaxRetries, imQueries>>
    /\ UNCHANGED notImVars

\* the wait of 3 or 6 seconds is over
ImTimerFires ==
    /\ imPc = "wait"
    /\ imPc' = "loop"
    /\ UNCHANGED <<imMaxRetries, imRetryCount, imQueries, imLast>>
    /\ UNCHANGED notImVars

ImNext == waitForImportTask \/ queryImportTask \/ ImTimerFires

SpecImportWait == ImInit /\ [][ImNext]_vars

\* every query is answered and every timer fires
SpecImportWaitFair == SpecImportWait /\ WF_vars(ImNext)

-----------------------------------------------------------------------------
(* Properties of the wait for an import task *)

\* the failures of the status query itself
QueryFailures == {"network", "apiCode", "emptyResult", "tokenFailed"}

\* C39: the wait is not ended by a failure of the status query as long as
\* retries are left: when it has thrown after such a failure, the failure was
\* that of query maxRetries + 1.
C39_QueryFailureIsRetried ==
    (imPc = "thrown" /\ imLast \in QueryFailures) => imRetryCount > imMaxRetries

\* what holds of C39: a failure of getAccessToken and a finished task without
\* a token are retried; every error thrown by the request of the query ends
\* the wait at once, like a reported failure of the task
OnlyUnwrappedErrorsRetried ==
    /\ (imPc = "thrown" /\ imLast \in {"tokenFailed", "doneWithoutToken"})
          => imRetryCount > imMaxRetries
    /\ (imPc = "wait") => imLast \in {"pending", "tokenFailed", "doneWithoutToken"}
    /\ (imLast \in {"network", "apiCode", "emptyResult", "taskFailed"})
          => imPc = "thrown"

\* the wait is over
ImEnded == imPc \in {"returned", "thrown"}

\* C40: the wait issues at most maxRetries + 1 status queries and comes to
\* its end, where it has returned the token and the url of a finished task
\* or has thrown.
C40_WaitTerminates ==
    /\ [](imQueries <= imMaxRetries + 1)
    /\ [](imPc = "returned" => imLast = "done")
    /\ <>[]ImEnded

\* with the default of five retries the task was pending six times and the
\* wait has thrown after its sixth query
C40_Witness ==
    /\ imMaxRetries = 5
    /\ imQueries = 6
    /\ imLast = "pending"
    /\ imPc = "thrown"

-----------------------------------------------------------------------------
(* Callout conversion *)

sNote == <<"n", "o", "t", "e">>
sNoteMixed == <<"N", "o", "t", "e">>
sTodo == <<"t", "o", "d", "o">>
CalloutTypes == {sNote, sNoteMixed, sTodo}

Marker(type) == <<"[", "!">> \o type \o <<"]">>

\* what a block of the remote document is: [block_type, content]
RemoteBlockPool ==
    { [block_type |-> 15, content |-> Marker(sNote) \o <<" ">> \o sAb],
      [block_type |-> 15, content |-> Marker(sNoteMixed) \o <<" ">> \o sAb],
      [block_type |-> 15, content |-> Marker(ToUpperCase(sNote)) \o <<"-", " ">> \o sAb],
      [block_type |-> 15, content |-> Marker(sTodo)],
      [block_type |-> 2, content |-> sAb],
      [block_type |-> 11, content |-> sAb] }

RemoteDoc(descr) ==
    [i \in 1..Len(descr) |->
        [block_id |-> i, block_type |-> descr[i].block_type,
         content |-> descr[i].content]]

\* children/batch_delete with start_index = index and end_index = index + 1
RemoteDeleteOk(doc, index) == index + 1 <= Len(doc)
RemoteDelete(doc, index) == SubSeq(doc, 1, index) \o SubSeq(doc, index + 2, Len(doc))

\* creation of a child at position index of the parent
RemoteInsertOk(doc, index) == index <= Len(doc)
RemoteInsert(doc, index, block) ==
    SubSeq(doc, 1, index) \o <<block>> \o SubSeq(doc, index + 1, Len(doc))

\* addIndexToBlocks: every block with its position among its siblings
addIndexToBlocks(doc) ==
    [i \in 1..Len(doc) |->
        [block_id |-> doc[i].block_id, block_type |-> doc[i].block_type,
         content |-> doc[i].content, parent_id |-> "root", index |-> i - 1]]

\* the predicate of blocks.find in findMatchingQuoteBlocks
HasCalloutMarker(block, type) ==
    /\ block.block_type = 15
    /\ \/ Includes(Trim(block.content), Marker(ToLowerCase(type)))
       \/ Includes(Trim(block.content), Marker(ToUpperCase(type)))

\* blocks.find: the first position that satisfies the predicate, 0 if none
FindBlock(bs, type) ==
    LET hits == {i \in 1..Len(bs) : HasCalloutMarker(bs[i], type)}
    IN  IF hits = {} THEN 0 ELSE CHOOSE i \in hits : \A j \in hits : i <= j

RECURSIVE MatchesFrom(_, _, _)
MatchesFrom(bs, callouts, c) ==
    IF c > Len(callouts)
    THEN <<>>
    ELSE (IF FindBlock(bs, callouts[c]) = 0
          THEN <<>>
          ELSE <<[callout |-> callouts[c], block |-> bs[FindBlock(bs, callouts[c])]]>>)
         \o MatchesFrom(bs, callouts, c + 1)

findMatchingQuoteBlocks(bs, callouts) == MatchesFrom(bs, callouts, 1)

\* number of leading \w characters
RECURSIVE LeadingWordChars(_)
LeadingWordChars(s) ==
    IF s # <<>> /\ IsWordChar(s[1]) THEN 1 + LeadingWordChars(Tail(s)) ELSE 0

\* the end, in s, of a match of \[!(\w+)\] that starts at position i; 0 if none
MarkerEnd(s, i) ==
    LET n == LeadingWordChars(DropFirst(s, i + 1))
    IN  IF /\ i + 1 <= Len(s) /\ s[i] = "[" /\ s[i + 1] = "!"
           /\ n > 0 /\ i + 2 + n <= Len(s) /\ s[i + 2 + n] = "]"
        THEN i + 2 + n
        ELSE 0

\* blockContent.match(/\[!(\w+)\]([+-]?)\s*(.*)$/s) and the choice of
\* match[3].trim() over blockContent
ActualContent(content) ==
    LET blockContent == Trim(content)
        starts == {i \in 1..Len(blockContent) : MarkerEnd(blockContent, i) # 0}
        first == CHOOSE i \in starts : \A j \in starts : i <= j
        afterMarker == DropFirst(blockContent, MarkerEnd(blockContent, first))
        afterFold == IF afterMarker # <<>> /\ afterMarker[1] \in {"+", "-"}
                     THEN Tail(afterMarker) ELSE afterMarker
    IN  IF starts = {} \/ TrimStart(afterFold) = <<>>
        THEN blockContent
        ELSE Trim(afterFold)

\* a failed conversion that ends the loop over the work list
Aborts(item, total) == total + 1

\* a failed conversion is logged and the loop goes on with the next item
Skips(item, total) == item + 1

CoCall(item, op, ok, index) == [item |-> item, op |-> op, ok |-> ok, index |-> index]

CoInit ==
    /\ coPath \in {"converter", "smart"}
    /\ coListsPage \in BOOLEAN
    /\ coDoc \in {RemoteDoc(d) : d \in SeqsUpTo(RemoteBlockPool, MaxDocBlocks) \ {<<>>}}
    /\ coCallouts \in SeqsUpTo(CalloutTypes, MaxCallouts) \ {<<>>}
    /\ coMatches = <<>>
    /\ coItem = 0
    /\ coCalls = <<>>
    /\ coConverted = 0
    /\ coPc = "idle"
    /\ RecOff /\ ValOff /\ SuOff /\ DqOff /\ RtOff /\ LpOff /\ ScOff /\ PlOff /\ PnOff /\ SdOff /\ WlOff /\ PpOff /\ ImOff

\* convertCalloutsInDocument, steps 4 and 5: the listing of the blocks and
\* the matching of the selected callouts
convertCalloutsInDocument ==
    /\ coPc = "idle"
    /\ coPath = "converter"
    /\ \E ok \in BOOLEAN :
          LET matches == findMatchingQuoteBlocks(addIndexToBlocks(coDoc), coCallouts)
          IN  IF ok /\ matches # <<>>
              THEN /\ coMatches' = matches
                   /\ coItem' = 1
                   /\ coPc' = "delete"
              ELSE /\ coPc' = "done"
                   /\ UNCHANGED <<coMatches, coItem>>
    /\ UNCHANGED <<coPath, coListsPage, coDoc, coCallouts, coCalls, coConverted>>
    /\ UNCHANGED notCoVars

\* processSingleCalloutConversion up to the end of its step 1
CoDeleteQuote ==
    /\ coPc = "delete"
    /\ coPath = "converter"
    /\ coItem <= Len(coMatches)
    /\ LET block == coMatches[coItem].block
       IN  IF block.parent_id = ""
           THEN \* return false
                /\ coItem' = coItem + 1
                /\ UNCHANGED <<coDoc, coCalls, coPc>>
           ELSE IF block.block_id = 0
           THEN \* the delete is skipped
                /\ coPc' = "insert"
                /\ UNCHANGED <<coDoc, coCalls, coItem>>
           ELSE \E answer \in BOOLEAN :
                  LET ok == answer /\ RemoteDeleteOk(coDoc, block.index)
                  IN  /\ coCalls' = Append(coCalls,
                             CoCall(coItem, "delete", ok, block.index))
                      /\ IF ok
                         THEN /\ coDoc' = RemoteDelete(coDoc, block.index)
                              /\ coPc' = "insert"
                              /\ UNCHANGED coItem
                         ELSE \* catch: return false
                              /\ coItem' = Skips(coItem, Len(coMatches))
                              /\ UNCHANGED <<coDoc, coPc>>
    /\ UNCHANGED <<coPath, coListsPage, coCallouts, coMatches, coConverted>>
    /\ UNCHANGED notCoVars

\* processSingleCalloutConversion, step 2, and the count of the caller
CoInsertCallout ==
    /\ coPc = "insert"
    /\ coPath = "converter"
    /\ LET block == coMatches[coItem].block
       IN  \E answer \in BOOLEAN :
             LET ok == answer /\ RemoteInsertOk(coDoc, block.index)
             IN  /\ coCalls' = Append(coCalls, CoCall(coItem, "insert", ok, block.index))
                 /\ IF ok
                    THEN /\ coDoc' = RemoteInsert(coDoc, block.index,
                                [block_id |-> 10 + coItem, block_type |-> 19,
                                 content |-> ActualContent(block.content)])
                         /\ coConverted' = coConverted + 1
                         /\ coItem' = coItem + 1
                    ELSE /\ coItem' = Skips(coItem, Len(coMatches))
                         /\ UNCHANGED <<coDoc, coConverted>>
    /\ coPc' = "delete"
    /\ UNCHANGED <<coPath, coListsPage, coCallouts, coMatches>>
    /\ UNCHANGED notCoVars

\* processCalloutConversion of the smart update up to its loop: the blocks
\* carry their position in the listing, the work list is the blocks of type 11
processCalloutConversion ==
    /\ coPc = "idle"
    /\ coPath = "smart"
    /\ \E ok \in BOOLEAN :
          LET offset == IF coListsPage THEN 1 ELSE 0
              blocksWithIndex ==
                  [i \in 1..Len(coDoc) |->
                      [block_id |-> coDoc[i].block_id,
                       block_type |-> coDoc[i].block_type,
                       content |-> coDoc[i].content, parent_id |-> "root",
                       index |-> i - 1 + offset]]
              IsQuote(b) == b.block_type = 11
              quoteBlocks == SelectSeq(blocksWithIndex, IsQuote)
          IN  IF ok /\ quoteBlocks # <<>>
              THEN /\ coMatches' = [i \in 1..Len(quoteBlocks) |->
                                       [callout |-> <<>>, block |-> quoteBlocks[i]]]
                   /\ coItem' = 1
                   /\ coPc' = "smartInsert"
              ELSE /\ coPc' = "done"
                   /\ UNCHANGED <<coMatches, coItem>>
    /\ UNCHANGED <<coPath, coListsPage, coDoc, coCallouts, coCalls, coConverted>>
    /\ UNCHANGED notCoVars

\* one iteration of the loop of processCalloutConversion up to the end of
\* createDocumentBlocks
SmartInsertCallout ==
    /\ coPc = "smartInsert"
    /\ coItem <= Len(coMatches)
    /\ LET block == coMatches[coItem].block
       IN  \E answer \in BOOLEAN :
             LET ok == answer /\ RemoteInsertOk(coDoc, block.index)
             IN  /\ coCalls' = Append(coCalls, CoCall(coItem, "insert", ok, block.index))
                 /\ IF ok
                    THEN /\ coDoc' = RemoteInsert(coDoc, block.index,
                                [block_id |-> 10 + coItem, block_type |-> 34,
                                 content |-> <<>>])
                         /\ coPc' = "smartDelete"
                         /\ UNCHANGED coItem
                    ELSE \* catch: on to the next block
                         /\ coItem' = Skips(coItem, Len(coMatches))
                         /\ UNCHANGED <<coDoc, coPc>>
    /\ UNCHANGED <<coPath, coListsPage, coCallouts, coMatches, coConverted>>
    /\ UNCHANGED notCoVars

\* the rest of the iteration: deleteDocumentBlock at the same index
SmartDeleteQuote ==
    /\ coPc = "smartDelete"
    /\ LET block == coMatches[coItem].block
       IN  \E answer \in BOOLEAN :
             LET ok == answer /\ RemoteDeleteOk(coDoc, block.index)
             IN  /\ coCalls' = Append(coCalls, CoCall(coItem, "delete", ok, block.index))
                 /\ coDoc' = IF ok THEN RemoteDelete(coDoc, block.index) ELSE coDoc
                 /\ coItem' = IF ok THEN coItem + 1 ELSE Skips(coItem, Len(coMatches))
    /\ coPc' = "smartInsert"
    /\ UNCHANGED <<coPath, coListsPage, coCallouts, coMatches, coConverted>>
    /\ UNCHANGED notCoVars

\* the end of either loop
CoReturn ==
    /\ coPc \in {"delete", "smartInsert"}
    /\ coItem > Len(coMatches)
    /\ coPc' = "done"
    /\ UNCHANGED <<coPath, coListsPage, coDoc, coCallouts, coMatches, coItem,
                   coCalls, coConverted>>
    /\ UNCHANGED notCoVars

CoNext ==
    \/ convertCalloutsInDocument
    \/ CoDeleteQuote
    \/ CoInsertCallout
    \/ processCalloutConversion
    \/ SmartInsertCallout
    \/ SmartDeleteQuote
    \/ CoReturn

SpecCallout == CoInit /\ [][CoNext]_vars

-----------------------------------------------------------------------------
(* Properties of the callout conversion *)

DeletedBefore(k) ==
    \E j \in 1..(k - 1) :
        /\ coCalls[j].op = "delete"
        /\ coCalls[j].item = coCalls[k].item
        /\ coCalls[j].ok

\* C4: in every callout conversion the insert call of the replacement is
\* issued only after the delete call of the original quote block of the
\* same conversion has completed.
C4_DeleteBeforeInsert ==
    \A k \in 1..Len(coCalls) : coCalls[k].op = "insert" => DeletedBefore(k)

\* what holds of C4: the conversions of CalloutConverter delete first
ConverterDeletesFirst ==
    coPath = "converter" =>
        \A k \in 1..Len(coCalls) : coCalls[k].op = "insert" => DeletedBefore(k)

\* the calls of the conversion of item i of the work list
CallsOf(i) == {k \in 1..Len(coCalls) : coCalls[k].item = i}

\* C24: a conversion that fails does not end the loop: once the conversion
\* of a document has returned, a call was issued for every item of the work
\* list, in the order of the list, whatever calls have failed before.
C24_FailedConversionIsSkipped ==
    /\ \A k \in 1..Len(coCalls) :
          k > 1 => coCalls[k - 1].item <= coCalls[k].item
    /\ coPc = "done" =>
          \A i \in 1..Len(coMatches) : CallsOf(i) # {}

\* the conversion of two items by CalloutConverter has returned: the delete
\* of the first failed, the second was attempted and its callout inserted
C24_Witness ==
    /\ coPc = "done"
    /\ coPath = "converter"
    /\ Len(coMatches) = 2
    /\ \A k \in CallsOf(1) : ~coCalls[k].ok
    /\ \E k \in CallsOf(2) : coCalls[k].op = "insert" /\ coCalls[k].ok

\* the flattened text of the block contains the marker of the type, the case
\* of the letters aside
ContainsMarkerAnyCase(block, type) ==
    Includes(ToLowerCase(Trim(block.content)), Marker(ToLowerCase(type)))

\* the selected callouts that have a pair in the work list
Matched == {coMatches[i].callout : i \in 1..Len(coMatches)}

\* CalloutConverter has matched the blocks of the listing and has not yet
\* changed the document
JustMatched == coPath = "converter" /\ coPc = "delete" /\ coCalls = <<>>

\* C25: once CalloutConverter has matched the blocks of the listing, every
\* selected callout whose marker [!type] is contained, in any mix of upper and
\* lower case, in the text of a quote block is paired with a block.
C25_MarkerMatchesInAnyCase ==
    JustMatched =>
        \A c \in 1..Len(coCallouts) :
            (\E i \in 1..Len(coDoc) :
                /\ coDoc[i].block_type = 15
                /\ ContainsMarkerAnyCase(coDoc[i], coCallouts[c]))
            => coCallouts[c] \in Matched

\* what holds of C25: a callout is paired when a quote block contains its
\* marker in lower case throughout or in upper case throughout
MarkerMatchesInOneCase ==
    JustMatched =>
        \A c \in 1..Len(coCallouts) :
            (\E i \in 1..Len(coDoc) :
                /\ coDoc[i].block_type = 15
                /\ \/ Includes(Trim(coDoc[i].content), Marker(ToLowerCase(coCallouts[c])))
                   \/ Includes(Trim(coDoc[i].content), Marker(ToUpperCase(coCallouts[c]))))
            <=> coCallouts[c] \in Matched


\* a delete call of CalloutConverter is being issued
ConverterIssuesDelete ==
    /\ coPath = "converter"
    /\ Len(coCalls') = Len(coCalls) + 1
    /\ coCalls'[Len(coCalls')].op = "delete"

\* the block at the position the current item was listed at is the block of
\* that item
IndexDesignatesBlock ==
    LET block == coMatches[coItem].block
    IN  /\ block.index + 1 <= Len(coDoc)
        /\ coDoc[block.index + 1].block_id = block.block_id

\* C33: whenever CalloutConverter issues the delete call of an item, the
\* block that is at the index of the call in the document at that moment is
\* the quote block of the item.
C33_DeleteDesignatesItsQuoteBlock ==
    [][ConverterIssuesDelete => IndexDesignatesBlock]_vars

\* every call so far has succeeded and no earlier item has the block of the
\* current one
EarlierConversionsComplete ==
    /\ \A k \in 1..Len(coCalls) : coCalls[k].ok
    /\ \A i \in 1..(coItem - 1) :
          coMatches[i].block.block_id # coMatches[coItem].block.block_id

\* what holds of C33: the index designates the quote block as long as every
\* earlier conversion was completed and was that of another block
DeleteDesignatesAfterCompleteConversions ==
    [][(ConverterIssuesDelete /\ EarlierConversionsComplete)
          => IndexDesignatesBlock]_vars


\* C35: the pairs CalloutConverter works through have pairwise different
\* quote blocks.
C35_MatchedBlocksDistinct ==
    coPath = "converter" =>
        \A i, j \in 1..Len(coMatches) :
            i # j => coMatches[i].block.block_id # coMatches[j].block.block_id

\* what holds of C35: two pairs have the same block only if their callouts
\* have the same type, the case of the letters aside, and every pair has the
\* first quote block of the listing that holds the marker of its callout
PairsOfOneBlockHaveOneType ==
    JustMatched =>
        /\ \A i, j \in 1..Len(coMatches) :
              coMatches[i].block.block_id = coMatches[j].block.block_id =>
                  ToLowerCase(coMatches[i].callout) = ToLowerCase(coMatches[j].callout)
        /\ \A i \in 1..Len(coMatches) :
              coMatches[i].block.block_id = FindBlock(coDoc, coMatches[i].callout)


\* the attempt to convert item i of the work list is over
AttemptOver(i) == coPc = "done" \/ coItem > i

\* the blocks of the document that hold the text of item i: its quote block
\* and the callout block created for it
BlocksOf(i) ==
    {k \in 1..Len(coDoc) :
        coDoc[k].block_id \in {coMatches[i].block.block_id, 10 + i}}

\* C36: once the attempt to convert an item is over, the document holds
\* exactly one of the quote block of the item and the callout block created
\* for it.
C36_BodyInExactlyOneBlock ==
    \A i \in 1..Len(coMatches) : AttemptOver(i) => Cardinality(BlocksOf(i)) = 1

\* what holds of C36: when every call of a run of CalloutConverter has
\* succeeded and the items have different blocks, every item that was
\* attempted has its callout block and no quote block
CompletedConversionsLeaveTheCallout ==
    (/\ coPath = "converter"
     /\ \A k \in 1..Len(coCalls) : coCalls[k].ok
     /\ \A i, j \in 1..Len(coMatches) :
           i # j => coMatches[i].block.block_id # coMatches[j].block.block_id)
    => \A i \in 1..Len(coMatches) :
           AttemptOver(i) =>
               \A k \in BlocksOf(i) : coDoc[k].block_id = 10 + i

-----------------------------------------------------------------------------
(* Delete queue *)

DELETE_REQUEST_INTERVAL == 350

\* The event loop runs one callback at a time: an action is the code between
\* two awaits.  The state of the queue as a record, so that the steps of
\* processDeleteQueue compose.
DqState ==
    [queue |-> deleteRequestQueue, processing |-> isProcessingDeleteQueue,
     last |-> lastDeleteRequestTime, cons |-> dqConsumers,
     inflight |-> dqInFlight, log |-> dqDispatched]

DqSet(st) ==
    /\ deleteRequestQueue' = st.queue
    /\ isProcessingDeleteQueue' = st.processing
    /\ lastDeleteRequestTime' = st.last
    /\ dqConsumers' = st.cons
    /\ dqInFlight' = st.inflight
    /\ dqDispatched' = st.log

Consumer(pc, wake, req) == [pc |-> pc, wake |-> wake, req |-> req]

\* the exit of the while loop
DqFinish(st, c) ==
    [st EXCEPT !.processing = FALSE, !.cons[c] = Consumer("returned", 0, 0)]

\* shift, lastDeleteRequestTime = Date.now(), request() up to its first await
DqDispatch(st, c, t) ==
    IF st.queue = <<>>
    THEN DqFinish(st, c)
    ELSE [st EXCEPT !.queue = Tail(@),
                    !.last = t,
                    !.inflight = @ \cup {Head(st.queue)},
                    !.log = Append(@, [req |-> Head(st.queue), at |-> t]),
                    !.cons[c] = Consumer("inflight", 0, Head(st.queue))]

\* a consumer that never waits
MustWaitNever(t, last) == FALSE

\* timeSinceLastRequest < DELETE_REQUEST_INTERVAL, measured at the loop head
MustWait(t, last) == t - last < DELETE_REQUEST_INTERVAL

\* the head of the while loop, up to the next await
DqLoopHead(st, c, t) ==
    IF st.queue = <<>>
    THEN DqFinish(st, c)
    ELSE IF MustWait(t, st.last)
         THEN [st EXCEPT !.cons[c] =
                  Consumer("waiting", t + (DELETE_REQUEST_INTERVAL - (t - st.last)), 0)]
         ELSE DqDispatch(st, c, t)

\* a variant of the guard below that lets every call start a consumer
StartsConsumerAlways(processing, queue) == queue # <<>>

\* the negation of the early return of processDeleteQueue
StartsConsumer(processing, queue) == ~processing /\ queue # <<>>

\* a wrapped request that lets the error of the delete through to the consumer
AfterRequestThrows(ok) == IF ok THEN "resume" ELSE "thrown"

\* where processDeleteQueue is after await request(): wrappedRequest catches
\* the error of the delete and rejects the promise of the caller, so that
\* the consumer goes on in either case
AfterRequest(ok) == "resume"

DqInit ==
    /\ deleteRequestQueue = <<>>
    /\ isProcessingDeleteQueue = FALSE
    /\ lastDeleteRequestTime = 0
    /\ now = StartTime
    /\ dqEnqueued = 0
    /\ dqConsumers = [c \in 1..MaxDeletes |-> Consumer("none", 0, 0)]
    /\ dqInFlight = {}
    /\ dqDispatched = <<>>
    /\ dqSettled = [r \in 1..MaxDeletes |-> "pending"]
    /\ RecOff /\ ValOff /\ SuOff /\ CoOff /\ RtOff /\ LpOff /\ ScOff /\ PlOff /\ PnOff /\ SdOff /\ WlOff /\ PpOff /\ ImOff

\* queueDeleteRequest: the push and the call of processDeleteQueue up to its
\* first await
queueDeleteRequest ==
    /\ dqEnqueued < MaxDeletes
    /\ LET r == dqEnqueued + 1
           pushed == [DqState EXCEPT !.queue = Append(@, r)]
       IN  /\ dqEnqueued' = r
           /\ IF StartsConsumer(pushed.processing, pushed.queue)
              THEN DqSet(DqLoopHead([pushed EXCEPT !.processing = TRUE], r, now))
              ELSE DqSet(pushed)
    /\ UNCHANGED <<now, dqSettled>>
    /\ UNCHANGED notDqVars

\* the timer of the wait fires: the rest of the iteration up to await request()
DqTimerFires ==
    /\ \E c \in 1..MaxDeletes :
          /\ dqConsumers[c].pc = "waiting"
          /\ now >= dqConsumers[c].wake
          /\ DqSet(DqDispatch(DqState, c, now))
    /\ UNCHANGED <<now, dqEnqueued, dqSettled>>
    /\ UNCHANGED notDqVars

\* the remote delete answers: wrappedRequest settles the promise of the
\* caller and returns
DqRequestCompletes ==
    /\ \E c \in 1..MaxDeletes, ok \in BOOLEAN :
          /\ dqConsumers[c].pc = "inflight"
          /\ dqInFlight' = dqInFlight \ {dqConsumers[c].req}
          /\ dqSettled' = [dqSettled EXCEPT ![dqConsumers[c].req] =
                               IF ok THEN "resolved" ELSE "rejected"]
          /\ dqConsumers' = [dqConsumers EXCEPT ![c] = Consumer(AfterRequest(ok), 0, 0)]
    /\ UNCHANGED <<deleteRequestQueue, isProcessingDeleteQueue, lastDeleteRequestTime,
                   now, dqEnqueued, dqDispatched>>
    /\ UNCHANGED notDqVars

\* processDeleteQueue resumes after await request()
DqResume ==
    /\ \E c \in 1..MaxDeletes :
          /\ dqConsumers[c].pc = "resume"
          /\ DqSet(DqLoopHead(DqState, c, now))
    /\ UNCHANGED <<now, dqEnqueued, dqSettled>>
    /\ UNCHANGED notDqVars

\* time passes
DqTick ==
    /\ now < StartTime + MaxElapsed
    /\ now' = now + TickMs
    /\ UNCHANGED <<deleteRequestQueue, isProcessingDeleteQueue, lastDeleteRequestTime,
                   dqEnqueued, dqConsumers, dqInFlight, dqDispatched, dqSettled>>
    /\ UNCHANGED notDqVars

DqNext ==
    \/ queueDeleteRequest
    \/ DqTimerFires
    \/ DqRequestCompletes
    \/ DqResume
    \/ DqTick

SpecDeleteQueue == DqInit /\ [][DqNext]_vars

\* time passes until the timer of a waiting consumer is due
DqWaitElapses ==
    /\ \E c \in 1..MaxDeletes :
          /\ dqConsumers[c].pc = "waiting"
          /\ dqConsumers[c].wake > now
          /\ now' = dqConsumers[c].wake
    /\ UNCHANGED <<deleteRequestQueue, isProcessingDeleteQueue, lastDeleteRequestTime,
                   dqEnqueued, dqConsumers, dqInFlight, dqDispatched, dqSettled>>
    /\ UNCHANGED notDqVars

DqFairNext == DqNext \/ DqWaitElapses

\* timers fire when they are due, every remote delete is answered, and the
\* event loop runs every callback that is ready; nothing obliges a caller to
\* queue a delete
SpecDeleteQueueFair ==
    /\ DqInit /\ [][DqFairNext]_vars
    /\ WF_vars(DqWaitElapses)
    /\ WF_vars(DqTimerFires)
    /\ WF_vars(DqRequestCompletes)
    /\ WF_vars(DqResume)

-----------------------------------------------------------------------------
(* Properties of the delete queue *)

\* C5: at no time are two queued delete requests in flight, whatever the
\* number and the timing of the calls of queueDeleteRequest.
C5_OneDeleteInFlight == Cardinality(dqInFlight) <= 1

\* a delete is in flight while one caller has already been served and the
\* request of another waits in the queue
C5_Witness ==
    /\ Cardinality(dqInFlight) = 1
    /\ deleteRequestQueue # <<>>
    /\ \E r \in 1..MaxDeletes : dqSettled[r] # "pending"

\* C23: two consecutive dispatches of delete requests are at least 350 ms
\* apart, the time of the last dispatch is the one the consumer measures
\* against, and a consumer that waits is woken no earlier than 350 ms after it.
C23_DispatchesSpaced ==
    /\ \A k \in 2..Len(dqDispatched) :
          dqDispatched[k].at - dqDispatched[k - 1].at >= DELETE_REQUEST_INTERVAL
    /\ dqDispatched # <<>> =>
          lastDeleteRequestTime = dqDispatched[Len(dqDispatched)].at
    /\ \A c \in 1..MaxDeletes :
          dqConsumers[c].pc = "waiting" =>
              /\ dqConsumers[c].wake = lastDeleteRequestTime + DELETE_REQUEST_INTERVAL
              /\ deleteRequestQueue # <<>>

\* the second delete was dispatched exactly 350 ms after the first, and the
\* consumer waits again before it dispatches the third
C23_Witness ==
    /\ Len(dqDispatched) = 2
    /\ dqDispatched[2].at - dqDispatched[1].at = DELETE_REQUEST_INTERVAL
    /\ \E c \in 1..MaxDeletes :
          /\ dqConsumers[c].pc = "waiting"
          /\ dqConsumers[c].wake > now

\* request r has been handed to the remote service
WasDispatched(r) == \E k \in 1..Len(dqDispatched) : dqDispatched[k].req = r

\* no call of processDeleteQueue is between its first and its last statement
NoConsumer == \A c \in 1..MaxDeletes : dqConsumers[c].pc \in {"none", "returned"}

\* C34: every queued delete is dispatched and the promise of its caller is
\* settled, whether or not deletes before it have failed; when no consumer is
\* left the queue is empty and the processing flag is false, and in the end
\* it stays so.
C34_EveryDeleteSettles ==
    /\ \A r \in 1..MaxDeletes :
          (dqEnqueued >= r) ~> (WasDispatched(r) /\ dqSettled[r] # "pending")
    /\ [](NoConsumer => (deleteRequestQueue = <<>> /\ ~isProcessingDeleteQueue))
    /\ <>[](NoConsumer /\ dqInFlight = {})

\* the first delete was rejected and its consumer returned with the flag
\* false; a delete queued after that was dispatched by a new consumer and
\* resolved
C34_Witness ==
    /\ dqSettled[1] = "rejected"
    /\ dqConsumers[1].pc = "returned"
    /\ dqConsumers[2].pc = "returned"
    /\ dqSettled[2] = "resolved"
    /\ ~isProcessingDeleteQueue

-----------------------------------------------------------------------------
(* Remote calls and the retry loop *)

maxRetries == 3
retryDelay == 10000

\* What one request can come to: code 0; HTTP 200 with a code other than 0,
\* which the function turns into an Error without a status; an HTTP error,
\* which requestUrl throws with its status; a failure without any status.
Responses == {"ok", "business", "http500", "http503", "http400", "network"}

Is5xx(response) == response \in {"http500", "http503"}

\* errorMeta.status of the error thrown for a response; 0 when it has none
StatusOf(response) ==
    CASE response = "http500" -> 500
      [] response = "http503" -> 503
      [] response = "http400" -> 400
      [] OTHER -> 0

\* a variant of the test below that retries after every failure
RetriesAnyError(kind, response, count) ==
    kind = "permission" /\ count < maxRetries

\* the test of the catch clause of executePermissionRequest;
\* createDocumentBlocks has no retry loop
Retries(kind, response, count) ==
    kind = "permission" /\ StatusOf(response) = 500 /\ count < maxRetries

RtInit ==
    /\ rtKind \in {"permission", "createBlocks"}
    /\ rtNow = 0
    /\ retryCount = 0
    /\ rtAttempts = <<>>
    /\ rtError = "none"
    /\ rtPc = "send"
    /\ RecOff /\ ValOff /\ SuOff /\ CoOff /\ DqOff /\ LpOff /\ ScOff /\ PlOff /\ PnOff /\ SdOff /\ WlOff /\ PpOff /\ ImOff

\* requestUrl is called
RtSend ==
    /\ rtPc = "send"
    /\ rtAttempts' = Append(rtAttempts,
                            [response |-> "pending", sent |-> rtNow, answered |-> rtNow])
    /\ rtPc' = "await"
    /\ UNCHANGED <<rtKind, rtNow, retryCount, rtError>>
    /\ UNCHANGED notRtVars

\* the request is answered: the rest of the try block and the catch clause
RtAnswer ==
    /\ rtPc = "await"
    /\ \E response \in Responses, latency \in {0, RequestLatency} :
          /\ rtNow' = rtNow + latency
          /\ rtAttempts' = [rtAttempts EXCEPT ![Len(rtAttempts)] =
                               [response |-> response, sent |-> @.sent,
                                answered |-> rtNow + latency]]
          /\ IF response = "ok"
             THEN /\ rtPc' = "returned"
                  /\ UNCHANGED <<retryCount, rtError>>
             ELSE IF Retries(rtKind, response, retryCount)
             THEN /\ retryCount' = retryCount + 1
                  /\ rtPc' = "backoff"
                  /\ UNCHANGED rtError
             ELSE /\ rtError' = response
                  /\ rtPc' = "thrown"
                  /\ UNCHANGED retryCount
    /\ UNCHANGED rtKind
    /\ UNCHANGED notRtVars

\* the timer of the backoff fires, on time or late
RtBackoffEnds ==
    /\ rtPc = "backoff"
    /\ \E late \in {0, TimerLateness} : rtNow' = rtNow + retryDelay + late
    /\ rtPc' = "send"
    /\ UNCHANGED <<rtKind, retryCount, rtAttempts, rtError>>
    /\ UNCHANGED notRtVars

RtNext == RtSend \/ RtAnswer \/ RtBackoffEnds

SpecRemoteCall == RtInit /\ [][RtNext]_vars

-----------------------------------------------------------------------------
(* Properties of the remote calls *)

Answered == {k \in 1..Len(rtAttempts) : rtAttempts[k].response # "pending"}

\* C6: a remote call surfaces a 5xx failure only after three retries, each
\* sent at least ten seconds after the answer before it.
C6_ServerErrorsRetried ==
    (rtPc = "thrown" /\ Is5xx(rtError)) =>
        /\ Len(rtAttempts) = 1 + maxRetries
        /\ \A k \in 2..Len(rtAttempts) :
              /\ Is5xx(rtAttempts[k - 1].response)
              /\ rtAttempts[k].sent >= rtAttempts[k - 1].answered + retryDelay

\* what holds of C6: the retries of a permission request answered with 500
PermissionRetriesOn500 ==
    /\ retryCount <= maxRetries
    /\ Len(rtAttempts) <= 1 + maxRetries
    /\ \A k \in 2..Len(rtAttempts) :
          /\ rtKind = "permission"
          /\ rtAttempts[k - 1].response = "http500"
          /\ rtAttempts[k].sent >= rtAttempts[k - 1].answered + retryDelay
    /\ (rtPc = "thrown" /\ rtKind = "permission" /\ rtError = "http500") =>
          Len(rtAttempts) = 1 + maxRetries

\* C7: a request that fails with an error that is not a 5xx is the last
\* request of its call, and the call throws that error at once; when it is
\* the first request, the call has made exactly one attempt.
C7_BusinessErrorsNotRetried ==
    \A k \in Answered :
        (rtAttempts[k].response # "ok" /\ ~Is5xx(rtAttempts[k].response)) =>
            /\ k = Len(rtAttempts)
            /\ rtPc = "thrown"
            /\ rtError = rtAttempts[k].response
            /\ rtNow = rtAttempts[k].answered

\* a permission request whose first answer was a business error
C7_Witness ==
    /\ rtKind = "permission"
    /\ rtPc = "thrown"
    /\ rtError = "business"
    /\ Len(rtAttempts) = 1

-----------------------------------------------------------------------------
(* Double-link resolver *)

Titles == 1..MaxTitles

\* Two calls of processWikiLinks share one LinkProcessor; call s handles the
\* note of title s.  A link names a note, or (0) a title of which
\* findFileByTitle finds no file.  Only the notes the calls handle are ever
\* searched for links.
Sessions == {1, 2}

Links == SeqsUpTo(Titles \cup {0}, MaxLinks)

\* the links of a note that names notes of the vault only
LinksToNotes == SeqsUpTo(Titles, MaxLinks)

\* a variant of the test below that never finds a cached result
CachedNever(title, uploaded) == FALSE

\* uploadedDocuments.has(wikiLink.title)
Cached(title, uploaded) == title \in uploaded

LpInit ==
    /\ lpVault \in {v \in [Sessions -> Links] : v[2] \in LinksToNotes}
    /\ uploadedDocuments = {}
    /\ processingDocuments = {}
    /\ lpLink = [s \in Sessions |-> 0]
    /\ lpResults = [s \in Sessions |-> {}]
    /\ lpUploads = [t \in Titles |-> 0]
    /\ lpPc = [s \in Sessions |-> "idle"]
    /\ RecOff /\ ValOff /\ SuOff /\ CoOff /\ DqOff /\ RtOff /\ ScOff /\ PlOff /\ PnOff /\ SdOff /\ WlOff /\ PpOff /\ ImOff

\* processWikiLinks up to the loop of uploadReferencedDocuments
processWikiLinks(s) ==
    /\ lpPc[s] = "idle"
    /\ IF lpVault[s] = <<>>
       THEN /\ lpPc' = [lpPc EXCEPT ![s] = "done"]
            /\ UNCHANGED lpLink
       ELSE /\ lpPc' = [lpPc EXCEPT ![s] = "loop"]
            /\ lpLink' = [lpLink EXCEPT ![s] = 1]
    /\ UNCHANGED <<lpVault, uploadedDocuments, processingDocuments, lpResults, lpUploads>>
    /\ UNCHANGED notLpVars

\* one iteration of uploadReferencedDocuments: uploadSingleDocument up to
\* its first await, and the rest of the iteration when it returns at once
uploadSingleDocument(s) ==
    /\ lpPc[s] = "loop"
    /\ lpLink[s] <= Len(lpVault[s])
    /\ LET title == lpVault[s][lpLink[s]]
       IN  IF title = 0
           THEN \* no file: null
                /\ lpLink' = [lpLink EXCEPT ![s] = @ + 1]
                /\ UNCHANGED <<processingDocuments, lpResults, lpPc>>
           ELSE IF Cached(title, uploadedDocuments)
           THEN /\ lpResults' = [lpResults EXCEPT ![s] = @ \cup {title}]
                /\ lpLink' = [lpLink EXCEPT ![s] = @ + 1]
                /\ UNCHANGED <<processingDocuments, lpPc>>
           ELSE IF title \in processingDocuments
           THEN \* in flight: null
                /\ lpLink' = [lpLink EXCEPT ![s] = @ + 1]
                /\ UNCHANGED <<processingDocuments, lpResults, lpPc>>
           ELSE /\ processingDocuments' = processingDocuments \cup {title}
                /\ lpPc' = [lpPc EXCEPT ![s] = "uploading"]
                /\ UNCHANGED <<lpLink, lpResults>>
    /\ UNCHANGED <<lpVault, uploadedDocuments, lpUploads>>
    /\ UNCHANGED notLpVars

\* the read of the note and uploadDocument end: the note is uploaded as it
\* is, its own wiki-links are not looked at
LpUploadEnds(s) ==
    /\ lpPc[s] = "uploading"
    /\ LET title == lpVault[s][lpLink[s]]
       IN  /\ \E ok \in BOOLEAN :
                 IF ok
                 THEN /\ lpUploads' = [lpUploads EXCEPT ![title] = @ + 1]
                      /\ uploadedDocuments' = uploadedDocuments \cup {title}
                      /\ lpResults' = [lpResults EXCEPT ![s] = @ \cup {title}]
                 ELSE UNCHANGED <<lpUploads, uploadedDocuments, lpResults>>
           /\ processingDocuments' = processingDocuments \ {title}
    /\ lpLink' = [lpLink EXCEPT ![s] = @ + 1]
    /\ lpPc' = [lpPc EXCEPT ![s] = "loop"]
    /\ UNCHANGED lpVault
    /\ UNCHANGED notLpVars

\* the return of uploadReferencedDocuments and the rest of processWikiLinks
LpReturn(s) ==
    /\ lpPc[s] = "loop"
    /\ lpLink[s] > Len(lpVault[s])
    /\ lpPc' = [lpPc EXCEPT ![s] = "done"]
    /\ UNCHANGED <<lpVault, uploadedDocuments, processingDocuments, lpLink,
                   lpResults, lpUploads>>
    /\ UNCHANGED notLpVars

LpNext ==
    \E s \in Sessions :
        \/ processWikiLinks(s)
        \/ uploadSingleDocument(s)
        \/ LpUploadEnds(s)
        \/ LpReturn(s)

SpecLinks == LpInit /\ [][LpNext]_vars

\* every callback that is ready runs, and every upload ends
SpecLinksFair == SpecLinks /\ WF_vars(LpNext)

-----------------------------------------------------------------------------
(* Properties of the double-link resolver *)

LinksTo(a, b) == \E i \in 1..Len(lpVault[a]) : lpVault[a][i] = b

LpAllDone == \A s \in Sessions : lpPc[s] = "done"

\* C8: whatever the links of the notes, cycles included, every call of the
\* resolver comes to its end, and then no title has been uploaded more than
\* once and the results hold titles of links of the note only.
C8_CycleTerminates ==
    <>[](/\ LpAllDone
         /\ \A t \in Titles : lpUploads[t] <= 1
         /\ \A s \in Sessions : \A t \in lpResults[s] : LinksTo(s, t))

\* notes 1 and 2 link to each other, both calls are over, each note has
\* been uploaded once and is the result of the call for the other note
C8_Witness ==
    /\ LinksTo(1, 2) /\ LinksTo(2, 1)
    /\ LpAllDone
    /\ lpUploads[1] = 1 /\ lpUploads[2] = 1
    /\ lpResults[1] = {2} /\ lpResults[2] = {1}


\* the notes the links of note t name, t itself left out
NotesLinkedFrom(t) == {w \in Titles \ {t} : LinksTo(t, w)}

\* C31: when a call has uploaded the note of a link and no call of its own
\* handles that note, the notes that note links to have been uploaded in turn
\* (or are links of the calling note, whose upload was tried there).
C31_ReferencedNoteResolvedInTurn ==
    \A s \in Sessions : \A t \in Sessions \ {s} :
        (lpPc[s] = "done" /\ t \in lpResults[s] /\ lpPc[t] = "idle") =>
            \A w \in NotesLinkedFrom(t) : w \in uploadedDocuments \/ LinksTo(s, w)

\* what holds of C31: a note is uploaded only as a direct link of a note
\* whose call has begun
OnlyDirectLinksUploaded ==
    \A t \in uploadedDocuments :
        \E s \in Sessions : lpPc[s] # "idle" /\ LinksTo(s, t)

-----------------------------------------------------------------------------
(* The match score of one block against one line *)

\* the lines and blocks of the reconciler, a heading longer than the limits
\* of the preview and of the structure content, an image, and a list item
\* whose text goes on after the text of a line
ScoreLinePool == (LinePool \ {<<>>}) \cup {<<"#", " ">> \o sLong}
ScoreBlockPool ==
    BlockPool \cup {[block_type |-> 3, field |-> "heading1", content |-> sLong],
                    [block_type |-> 27, field |-> "image", content |-> <<>>],
                    [block_type |-> 14, field |-> "bullet",
                     content |-> sAbCd \o <<" ", "x", "y">>]}

ScInit ==
    /\ scBlock \in {WithIds(<<d>>)[1] : d \in ScoreBlockPool}
    /\ scLine \in ScoreLinePool
    /\ scScore = Zero
    /\ scPc = "idle"
    /\ RecOff /\ ValOff /\ SuOff /\ CoOff /\ DqOff /\ RtOff /\ LpOff /\ PlOff /\ PnOff /\ SdOff /\ WlOff /\ PpOff /\ ImOff

\* calculateContentMatchScore of the block against the element of the line
ScoreBlock ==
    /\ scPc = "idle"
    /\ scScore' = calculateContentMatchScore(scBlock, parseMarkdownStructure(<<scLine>>)[1])
    /\ scPc' = "done"
    /\ UNCHANGED <<scBlock, scLine>>
    /\ UNCHANGED notScVars

ScNext == ScoreBlock

SpecScore == ScInit /\ [][ScNext]_vars

\* the block is what the conversion makes of the structure element
Mirrors(block, struct) ==
    /\ struct.type \in {"text", "heading1", "heading2", "heading3", "bullet",
                        "ordered", "quote"}
    /\ mapBlockTypeToMarkdown(block.block_type) = struct.type
    /\ block.field = struct.type
    /\ block.content = struct.content

\* a block that mirrors its line scores 0.9 or more: refuted by a quote and by
\* a heading longer than the preview (both score 0.88)
MirrorScoresHigh ==
    (scPc = "done" /\ Mirrors(scBlock, parseMarkdownStructure(<<scLine>>)[1])) =>
        FracGe(scScore, Frac(9, 10))

\* C28: the score of a block against a structure element is a number of the
\* interval [0, 1].
C28_ScoreWithinUnitInterval ==
    scPc = "done" => FracGe(scScore, Zero) /\ FracGe(One, scScore)

\* what holds of C28: the score is at least 0 and at most 1.2, the type score
\* of a list (0.6) plus 0.6 times a similarity of 1
ScoreWithinBounds ==
    scPc = "done" => FracGe(scScore, Zero) /\ FracGe(Frac(12, 10), scScore)

-----------------------------------------------------------------------------
(* Properties of the reconciler *)

BlockIds(bs) == {bs[i].block_id : i \in 1..Len(bs)}
Unused == (1..Len(blocks)) \ usedBlockIndices
ScoreOf(j, struct) == calculateContentMatchScore(blocks[j], struct)

\* C1: when reconciliation returns, the output has exactly as many blocks as
\* the input and holds every input block once: blocks are reordered, never
\* dropped.
C1_NoLostBlocks ==
    recPc = "done" =>
        /\ Len(reorderedBlocks) = Len(blocks)
        /\ BlockIds(reorderedBlocks) = BlockIds(blocks)

\* a run that matched one block out of input order and left another unmatched
C1_Witness ==
    /\ recPc = "done"
    /\ Len(blocks) = MaxBlocks
    /\ Cardinality(usedBlockIndices) = 1
    /\ reorderedBlocks # blocks

\* C9: the block assigned to a structure element is a highest-scoring unused
\* block and its score is at least 0.5; when no unused block reaches 0.5 the
\* element stays unmatched and no block is marked used.
C9_BestUnusedAboveThreshold ==
    [][(recPc = "match" /\ structIndex' = structIndex + 1) =>
        \A scores \in {{<<j, ScoreOf(j, markdownStructure[structIndex])>> : j \in Unused}} :
            IF \E p \in scores : FracGe(p[2], MatchThreshold)
            THEN \E p \in scores :
                    /\ usedBlockIndices' = usedBlockIndices \cup {p[1]}
                    /\ reorderedBlocks' = Append(reorderedBlocks, blocks[p[1]])
                    /\ FracGe(p[2], MatchThreshold)
                    /\ \A q \in scores : FracGe(p[2], q[2])
            ELSE UNCHANGED <<usedBlockIndices, reorderedBlocks>>]_vars

\* an element was left unmatched although a candidate scored above zero, and
\* another element was matched while a lower-scoring candidate was unused
C9_Witness ==
    /\ recPc = "done"
    /\ \E i \in 1..Len(matchLog) :
          /\ ~matchLog[i].matched
          /\ matchLog[i].bestMatch # 0
    /\ \E i \in 1..Len(matchLog) :
          /\ matchLog[i].matched
          /\ \E k \in (1..Len(blocks)) \ matchLog[i].usedBefore :
                FracGt(matchLog[i].bestScore,
                       calculateContentMatchScore(blocks[k], markdownStructure[i]))

\* the unused blocks that score, against element i, what the block taken scored
TiedWith(i) ==
    {k \in (1..Len(blocks)) \ matchLog[i].usedBefore :
        FracEq(calculateContentMatchScore(blocks[k], markdownStructure[i]),
               matchLog[i].bestScore)}

\* the matched blocks of the output, in the order the elements took them
MatchedLog == SelectSeq(matchLog, LAMBDA entry : entry.matched)

\* C29: when several unused blocks have the highest score for a structure
\* element, the block the element takes is the first of them in the input
\* order.
C29_TieGoesToFirstBlock ==
    recPc = "done" =>
        /\ \A i \in 1..Len(matchLog) :
              matchLog[i].matched =>
                  \A k \in TiedWith(i) : matchLog[i].bestMatch <= k
        /\ \A m \in 1..Len(MatchedLog) :
              reorderedBlocks[m] = blocks[MatchedLog[m].bestMatch]

\* an element took the first block although the second one scored the same
C29_Witness ==
    /\ recPc = "done"
    /\ \E i \in 1..Len(matchLog) :
          /\ matchLog[i].matched
          /\ matchLog[i].bestMatch = 1
          /\ 2 \in TiedWith(i)
    /\ reorderedBlocks[1].block_id = 1

\* the part of the output that follows the matched blocks
AppendedBlocks ==
    SubSeq(reorderedBlocks, Cardinality(usedBlockIndices) + 1, Len(reorderedBlocks))

\* the position of a block of the output in the input list
InputIndex(block) == CHOOSE j \in 1..Len(blocks) : blocks[j].block_id = block.block_id

\* C16: when reconciliation returns, the blocks that no structure element took
\* are the end of the output, each once, in the order they have in the input.
C16_UnusedAppendedInInputOrder ==
    recPc = "done" =>
        /\ BlockIds(AppendedBlocks) = {blocks[j].block_id : j \in Unused}
        /\ Len(AppendedBlocks) = Cardinality(Unused)
        /\ \A a, b \in 1..Len(AppendedBlocks) :
              a < b => InputIndex(AppendedBlocks[a]) < InputIndex(AppendedBlocks[b])

\* a run over a Markdown with elements that left two blocks unused
C16_Witness ==
    /\ recPc = "done"
    /\ Len(markdownStructure) > 0
    /\ Cardinality(Unused) = 2
    /\ Len(AppendedBlocks) = 2

\* the block list is the structure list, content for content and in source order
Mirrored ==
    /\ Len(blocks) = Len(markdownStructure)
    /\ \A i \in 1..Len(blocks) : Mirrors(blocks[i], markdownStructure[i])

\* C10: when the block list mirrors the structure list in source order, the
\* reconciler returns the blocks in that order and every match it makes has
\* a score of at least 0.9.
C10_UneditedContentKeepsOrder ==
    (recPc = "done" /\ Mirrored) =>
        /\ reorderedBlocks = blocks
        /\ \A i \in 1..Len(matchLog) :
              matchLog[i].matched => FracGe(matchLog[i].bestScore, Frac(9, 10))

====
